---- MODULE Spec2Model ----
(***************************************************************************)
(* A model of the FAST optical-Bloch routines of src/fast/bloch.py:        *)
(* the density-matrix vectorization maps, the degeneracy simplification,   *)
(* the detuning bookkeeping and the Hamiltonian evaluator builder.         *)
(*                                                                         *)
(* Indices are 0-based as in the Python source.  A Python list is a        *)
(* sequence read with At(l, n), a dict is a function over its keys, a      *)
(* numpy array is a function over its index tuples.  Energies, amplitudes  *)
(* and dipole elements are integers (complex numbers are Gaussian integers *)
(* [re, im]).  Generated Python code is a sequence of text tokens.         *)
(***************************************************************************)
EXTENDS Integers, Sequences, FiniteSets, TLC

VARIABLES
    pc,                \* position of the running routine
    Ne, Nv,            \* number of states, number of velocity groups
    real, lower_triangular, normalized,   \* vectorization flags
    comp_map, comp_map_inv, real_map, real_map_inv,
    mu_comp, mu_real,
    k, i, j,           \* loop counters of vectorization
    Mu, IJ,            \* the maps vectorization returns
    lookup,            \* the last call of Mu: argument, exception, index
    Nl,                \* number of fields
    omega_level, xi,   \* level energies, coupling tensor
    simp,              \* what define_simplification returned
    omega_min, iu0, ju0,   \* what find_omega_min returned
    pairs,             \* what detunings_indices returned
    code_det,          \* what detunings_code returned
    combs,             \* what detunings_combinations returned
    rm, theta,         \* dipole elements, phase transformation
    values, symbolic,  \* the fields' numbers, and which arguments are symbols
    hamiltonian,       \* the text fast_hamiltonian built
    H,                 \* the matrix the evaluator returned, as the caller holds it
    calls,             \* the calls of the evaluator so far: arguments and result
    expression, expression_code,  \* the expression given to detunings_rewrite, its text
    err                \* the exception that ended the run, or "none"

vecVars == <<Ne, Nv, real, lower_triangular, normalized,
             comp_map, comp_map_inv, real_map, real_map_inv,
             mu_comp, mu_real, k, i, j, Mu, IJ, lookup>>

detVars == <<Nl, omega_level, xi, simp, omega_min, iu0, ju0, pairs,
             code_det, combs>>

hamVars == <<rm, theta, values, symbolic, hamiltonian, H, calls>>

rwVars == <<expression, expression_code>>

vars == <<pc, err, vecVars, detVars, hamVars, rwVars>>

(***************************************************************************)
(* Bounds of the model.                                                    *)
(***************************************************************************)
MaxNeVec == 3
MaxNv == 2
\* Levels, fields, driven transitions and energy values of the detuning routines.
MaxNe == 3
MaxNl == 2
MaxCoup == 2
MaxOmega == 2
\* Fields and driven transitions of the inputs of detunings_combinations.
MaxNlComb == 3
MaxCoupComb == 3
MaxCalls == 2
MaxNeCalls == 2

(***************************************************************************)
(* Python helpers.                                                         *)
(***************************************************************************)
\* range(a, b)
range(a, b) == a..(b-1)

\* The empty dict {}.
EmptyDict == [x \in {} |-> 0]

\* d.update({key: val}): the new binding replaces an older one of the same key.
update(d, key, val) == (key :> val) @@ d

(***************************************************************************)
(* Python lists are sequences: At(l, n) is l[n] for Python's 0-based n.    *)
(***************************************************************************)
At(l, n) == l[n + 1]

\* a < b for two tuples of the same length (Python compares them item by item).
RECURSIVE tuple_lt(_, _)
tuple_lt(a, b) ==
    IF a = <<>> THEN FALSE
    ELSE IF Head(a) # Head(b) THEN Head(a) < Head(b)
    ELSE tuple_lt(Tail(a), Tail(b))

\* sorted(l) for a list of tuples: a stable insertion of each item in turn.
RECURSIVE sorted_insert(_, _)
sorted_insert(s, x) ==
    IF s = <<>> THEN <<x>>
    ELSE IF tuple_lt(x, Head(s)) THEN <<x>> \o s
    ELSE <<Head(s)>> \o sorted_insert(Tail(s), x)

RECURSIVE sorted(_)
sorted(l) ==
    IF l = <<>> THEN <<>>
    ELSE sorted_insert(sorted(SubSeq(l, 1, Len(l) - 1)), l[Len(l)])

(***************************************************************************)
(* Text.  A text is a sequence of tokens: the fixed pieces the source      *)
(* concatenates, and one token per character of every number it formats.   *)
(***************************************************************************)
DigitChars == <<"0", "1", "2", "3", "4", "5", "6", "7", "8", "9">>

RECURSIVE digits(_)
digits(n) ==
    IF n < 10 THEN <<DigitChars[n + 1]>>
    ELSE digits(n \div 10) \o <<DigitChars[(n % 10) + 1]>>

\* str(n) of an int.
str_int(n) == IF n < 0 THEN <<"-">> \o digits(-n) ELSE digits(n)

\* str(x) of a float of integral value, as in "-100.0".
str_float(x) == str_int(x) \o <<".", "0">>

\* The value of a digit character.
digit_value(c) == CHOOSE d \in 0..9 : DigitChars[d + 1] = c

IsDigit(c) == \E d \in 0..9 : DigitChars[d + 1] = c

\* The number a text of digits denotes.
RECURSIVE parse_digits(_)
parse_digits(t) ==
    IF Len(t) = 1 THEN digit_value(t[1])
    ELSE 10 * parse_digits(SubSeq(t, 1, Len(t) - 1)) + digit_value(t[Len(t)])

\* The int a literal denotes.
parse_int(t) ==
    IF t[1] = "-" THEN 0 - parse_digits(Tail(t)) ELSE parse_digits(t)

\* The float a literal "ddd.0" denotes.
parse_float(t) == parse_int(SubSeq(t, 1, Len(t) - 2))

\* The position of the first token tok of text t, 0 when there is none.
find(t, tok) ==
    IF \E n \in 1..Len(t) : t[n] = tok
    THEN CHOOSE n \in 1..Len(t) : t[n] = tok /\ \A m \in 1..(n-1) : t[m] # tok
    ELSE 0

\* The lines of a text, each without its "\n".
RECURSIVE splitlines(_)
splitlines(t) ==
    IF t = <<>> THEN <<>>
    ELSE LET n == find(t, "\n")
         IN  IF n = 0 THEN <<t>>
             ELSE <<SubSeq(t, 1, n - 1)>> \o splitlines(SubSeq(t, n + 1, Len(t)))

(***************************************************************************)
(* define_simplification(omega_level, xi, Nl)                              *)
(***************************************************************************)
\* The body of "for i in range(Ne)" for i = n.
simplification_step_mut(st, omega, n) ==
    LET s1 == IF At(omega, n) # st.om
              THEN [st EXCEPT !.iu = st.iu + 1,
                              !.Neu = st.Neu + 1,
                              !.omega_levelu = Append(st.omega_levelu, At(omega, n)),
                              !.di = update(st.di, st.iu + 1, n)]
              ELSE st
    IN  [s1 EXCEPT !.d = update(s1.d, n, s1.iu)]

simplification_step(st, omega, n) ==
    LET s1 == IF At(omega, n) # st.om
              THEN [st EXCEPT !.iu = st.iu + 1,
                              !.om = At(omega, n),
                              !.Neu = st.Neu + 1,
                              !.omega_levelu = Append(st.omega_levelu, At(omega, n)),
                              !.di = update(st.di, st.iu + 1, n)]
              ELSE st
    IN  [s1 EXCEPT !.d = update(s1.d, n, s1.iu)]

RECURSIVE simplification_loop_mut(_, _, _)
simplification_loop_mut(st, omega, n) ==
    IF n \notin range(0, Len(omega)) THEN st
    ELSE LET seen == {c \in 1..Len(st.omega_levelu) :
                         st.omega_levelu[c] = At(omega, n)}
         IN  simplification_loop_mut(
                 IF seen # {}
                 THEN [st EXCEPT !.d = update(st.d, n, (CHOOSE c \in seen : TRUE) - 1)]
                 ELSE simplification_step(st, omega, n),
                 omega, n + 1)

\* The iterations i = n, ..., Ne-1 of the loop.
RECURSIVE simplification_loop(_, _, _)
simplification_loop(st, omega, n) ==
    IF n \notin range(0, Len(omega)) THEN st
    ELSE simplification_loop(simplification_step(st, omega, n), omega, n + 1)

\* What the function returns: u and invu as the dicts d and di they look up.
define_simplification(omega, x, nl) ==
    LET st == simplification_loop(
                  [om |-> At(omega, 0), iu |-> 0, Neu |-> 1,
                   omega_levelu |-> <<At(omega, 0)>>,
                   d |-> EmptyDict, di |-> (0 :> 0)], omega, 0)
        neu == Len(st.omega_levelu)
    IN  [u |-> st.d, invu |-> st.di, omega_levelu |-> st.omega_levelu,
         Neu |-> neu,
         xiu |-> [t \in range(0, nl) \X range(0, neu) \X range(0, neu) |->
                     x[<<t[1], st.di[t[2]], st.di[t[3]]>>]]]

(***************************************************************************)
(* find_omega_min, detunings_indices                                       *)
(***************************************************************************)
\* The pairs (iu, ju) visited by "for iu in range(n): for ju in range(iu)",
\* in the order of the visit.
RECURSIVE loop_pairs(_)
loop_pairs(n) ==
    IF n = 0 THEN <<>>
    ELSE loop_pairs(n - 1) \o [m \in 1..(n - 1) |-> <<n - 1, m - 1>>]

\* The list omegasl of field l, before it is sorted.
omegasl_of(omega_levelu, Neu, xiu, l) ==
    LET coupled(p) == xiu[<<l, p[1], p[2]>>] = 1
        sel == SelectSeq(loop_pairs(Neu), coupled)
    IN  [n \in 1..Len(sel) |->
            <<At(omega_levelu, sel[n][1]) - At(omega_levelu, sel[n][2]),
              sel[n][1], sel[n][2]>>]

omega_pick_mut(omegasl) == At(omegasl, Len(omegasl) - 1)

\* The pick of one field out of its sorted list.
omega_pick(omegasl) == At(omegasl, 0)

RECURSIVE find_omega_min_loop_mut(_, _, _, _, _, _)
find_omega_min_loop_mut(acc, omega_levelu, Neu, nl, xiu, l) ==
    IF l \notin range(0, nl) THEN acc
    ELSE LET omegasl == sorted(omegasl_of(omega_levelu, Neu, xiu, l))
             first == IF omegasl = <<>> THEN <<0, 0, 0>> ELSE omega_pick(omegasl)
         IN  find_omega_min_loop_mut(
                 [acc EXCEPT !.omega_min = Append(@, first[1]),
                             !.iu0 = Append(@, first[2]),
                             !.ju0 = Append(@, first[3])],
                 omega_levelu, Neu, nl, xiu, l + 1)

\* The loop over the fields; omegasl[0] of an empty list raises IndexError.
RECURSIVE find_omega_min_loop(_, _, _, _, _, _)
find_omega_min_loop(acc, omega_levelu, Neu, nl, xiu, l) ==
    IF l \notin range(0, nl) THEN acc
    ELSE LET omegasl == sorted(omegasl_of(omega_levelu, Neu, xiu, l))
         IN  IF omegasl = <<>> THEN [acc EXCEPT !.raised = "IndexError"]
             ELSE find_omega_min_loop(
                      [acc EXCEPT !.omega_min = Append(@, omega_pick(omegasl)[1]),
                                  !.iu0 = Append(@, omega_pick(omegasl)[2]),
                                  !.ju0 = Append(@, omega_pick(omegasl)[3])],
                      omega_levelu, Neu, nl, xiu, l + 1)

find_omega_min(omega_levelu, Neu, nl, xiu) ==
    find_omega_min_loop([raised |-> "none", omega_min |-> <<>>,
                         iu0 |-> <<>>, ju0 |-> <<>>],
                        omega_levelu, Neu, nl, xiu, 0)

detunings_indices(Neu, nl, xiu) ==
    [l1 \in 1..nl |->
        LET coupled(p) == xiu[<<l1 - 1, p[1], p[2]>>] = 1
        IN  SelectSeq(loop_pairs(Neu), coupled)]

(***************************************************************************)
(* detunings_code(Neu, Nl, pairs, omega_levelu, iu0, ju0)                  *)
(***************************************************************************)
\* corr of the pair (iu, ju) of field l.
correction_mut(omega_levelu, iu0_, ju0_, l, iu, ju) ==
    LET corr == (0 - At(omega_levelu, iu)) + At(omega_levelu, At(iu0_, l))
    IN  At(omega_levelu, At(ju0_, l)) - At(omega_levelu, ju) - corr

correction(omega_levelu, iu0_, ju0_, l, iu, ju) ==
    LET corr == (0 - At(omega_levelu, iu)) + At(omega_levelu, At(iu0_, l))
    IN  At(omega_levelu, At(ju0_, l)) - At(omega_levelu, ju) + corr

\* The name "delta<l+1>_<iu+1>_<ju+1>".
delta_name(l, iu, ju) ==
    <<"delta">> \o str_int(l + 1) \o <<"_">> \o str_int(iu + 1)
                \o <<"_">> \o str_int(ju + 1)

\* The text of one assignment.
detunings_code_line_mut(omega_levelu, iu0_, ju0_, l, iu, ju) ==
    LET corr == correction(omega_levelu, iu0_, ju0_, l, iu, ju)
    IN  <<"    ">> \o delta_name(l, iu, ju)
        \o <<" = detuning_knob[">> \o str_int(l) \o <<"]">>
        \o <<" + (">> \o str_float(corr) \o <<")">>
        \o <<"\n">>

detunings_code_line(omega_levelu, iu0_, ju0_, l, iu, ju) ==
    LET corr == correction(omega_levelu, iu0_, ju0_, l, iu, ju)
    IN  <<"    ">> \o delta_name(l, iu, ju)
        \o <<" = detuning_knob[">> \o str_int(l) \o <<"]">>
        \o (IF corr # 0 THEN <<" + (">> \o str_float(corr) \o <<")">> ELSE <<>>)
        \o <<"\n">>

\* code_det after the pairs n, n+1, ... of field l and all the later fields.
RECURSIVE detunings_code_loop(_, _, _, _, _, _, _)
detunings_code_loop(nl, pairs_, omega_levelu, iu0_, ju0_, l, n) ==
    IF l \notin range(0, nl) THEN <<>>
    ELSE IF n \notin range(0, Len(At(pairs_, l)))
    THEN detunings_code_loop(nl, pairs_, omega_levelu, iu0_, ju0_, l + 1, 0)
    ELSE LET pair == At(At(pairs_, l), n)
         IN  detunings_code_line(omega_levelu, iu0_, ju0_, l, pair[1], pair[2])
             \o detunings_code_loop(nl, pairs_, omega_levelu, iu0_, ju0_, l, n + 1)

detunings_code(Neu, nl, pairs_, omega_levelu, iu0_, ju0_) ==
    detunings_code_loop(nl, pairs_, omega_levelu, iu0_, ju0_, 0, 0)

(***************************************************************************)
(* detunings_combinations(pairs)                                           *)
(***************************************************************************)
\* The inner function iter(pairs, combs, l): every comb extended by every pair
\* of field l, the combs outermost.
iter(pairs_, combs_, l) ==
    LET m == Len(At(pairs_, l))
    IN  [n \in 1..(Len(combs_) * m) |->
            Append(combs_[((n - 1) \div m) + 1], At(At(pairs_, l), (n - 1) % m))]

\* "for l in range(1, Nl): combs = iter(pairs, combs, 1)".
RECURSIVE detunings_combinations_loop(_, _, _)
detunings_combinations_loop(pairs_, combs_, l) ==
    IF l \notin range(1, Len(pairs_)) THEN combs_
    ELSE detunings_combinations_loop(pairs_, iter(pairs_, combs_, 1), l + 1)

detunings_combinations(pairs_) ==
    detunings_combinations_loop(
        pairs_, [n \in 1..Len(At(pairs_, 0)) |-> <<At(At(pairs_, 0), n - 1)>>], 1)

(***************************************************************************)
(* Running the emitted detuning assignments: what "exec" makes of code_det *)
(* for given detuning_knob values.                                         *)
(***************************************************************************)
\* One line "    <name> = detuning_knob[<l>]" with an optional " + (<float>)":
\* the name, the index and the constant.
parse_detuning_line(line) ==
    LET p == find(line, " = detuning_knob[")
        q == find(line, "]")
    IN  [name |-> SubSeq(line, 2, p - 1),
         knob |-> parse_int(SubSeq(line, p + 1, q - 1)),
         corr |-> IF Len(line) > q
                  THEN parse_float(SubSeq(line, q + 2, Len(line) - 1))
                  ELSE 0]

\* The variables the assignments define, for the knob values knob (a list).
exec_detunings(code, knob) ==
    LET lines == splitlines(code)
        parsed == [n \in 1..Len(lines) |-> parse_detuning_line(lines[n])]
        names == {parsed[n].name : n \in 1..Len(parsed)}
        last(nm) == CHOOSE n \in 1..Len(parsed) :
                        /\ parsed[n].name = nm
                        /\ \A m \in (n+1)..Len(parsed) : parsed[m].name # nm
    IN  [nm \in names |-> At(knob, parsed[last(nm)].knob) + parsed[last(nm)].corr]

(***************************************************************************)
(* Complex numbers (numpy complex128 of integral parts).                   *)
(***************************************************************************)
complex(re, im) == [re |-> re, im |-> im]

cadd(a, b) == complex(a.re + b.re, a.im + b.im)

cmul(a, b) == complex(a.re * b.re - a.im * b.im, a.re * b.im + a.im * b.re)

\* z.conjugate()
conjugate(z) == complex(z.re, 0 - z.im)

\* 0.5*z, for z of even parts.
half(z) == complex(z.re \div 2, z.im \div 2)

\* cartesian_dot_product(v1, v2) of src/fast/symbolic.py.
cartesian_dot_product(v1, v2) ==
    cadd(cadd(cmul(At(v1, 0), At(v2, 0)), cmul(At(v1, 1), At(v2, 1))),
         cmul(At(v1, 2), At(v2, 2)))

\* The elementary charge and the reduced Planck constant, in the integer units of
\* the model.
e_num == 3
hbar_num == 5

(***************************************************************************)
(* Symbolic expressions.  Every expression of these routines is linear in  *)
(* the symbols varpi_1..varpi_Nl (omega_laser), omega_1..omega_Ne (the     *)
(* level energies) and theta1..thetaNe: an expression is its coefficients. *)
(***************************************************************************)
zero_expr(nl, ne) ==
    [varpi |-> [l1 \in 1..nl |-> 0], omega |-> [n \in 1..ne |-> 0],
     theta |-> [n \in 1..ne |-> 0]]

\* c*omega_laser[l], c*omega_level[n], c*theta[n] (0-based l, n).
varpi_term(nl, ne, l, c) ==
    [zero_expr(nl, ne) EXCEPT !.varpi[l + 1] = c]

omega_term(nl, ne, n, c) ==
    [zero_expr(nl, ne) EXCEPT !.omega[n + 1] = c]

theta_term(nl, ne, n, c) ==
    [zero_expr(nl, ne) EXCEPT !.theta[n + 1] = c]

expr_add(a, b) ==
    [varpi |-> [l1 \in DOMAIN a.varpi |-> a.varpi[l1] + b.varpi[l1]],
     omega |-> [n \in DOMAIN a.omega |-> a.omega[n] + b.omega[n]],
     theta |-> [n \in DOMAIN a.theta |-> a.theta[n] + b.theta[n]]]

expr_scale(c, a) ==
    [varpi |-> [l1 \in DOMAIN a.varpi |-> c * a.varpi[l1]],
     omega |-> [n \in DOMAIN a.omega |-> c * a.omega[n]],
     theta |-> [n \in DOMAIN a.theta |-> c * a.theta[n]]]

expr_sub(a, b) == expr_add(a, expr_scale(0 - 1, b))

RECURSIVE expr_sum(_, _)
expr_sum(zero, l) == IF l = <<>> THEN zero ELSE expr_add(Head(l), expr_sum(zero, Tail(l)))

\* expr == 0
expr_is_zero(a) ==
    /\ \A l1 \in DOMAIN a.varpi : a.varpi[l1] = 0
    /\ \A n \in DOMAIN a.omega : a.omega[n] = 0
    /\ \A n \in DOMAIN a.theta : a.theta[n] = 0

\* diff(expr, omega_laser[l]) and diff(expr, symb_omega_levelu[n]).
diff_varpi(a, l) == a.varpi[l + 1]

diff_omega(a, n) == a.omega[n + 1]

(***************************************************************************)
(* phase_transformation(Ne, Nl, rm, xi)                                    *)
(***************************************************************************)
\* The equations -omega_laser[l] + theta[j] - theta[i], as (i, j, l), in the order
\* of the loops.
phase_equations_mut(ne, nl, rm_, x) ==
    LET all == [n \in 1..(ne * ne * nl) |->
                   <<(n - 1) \div (ne * nl), ((n - 1) \div nl) % ne, (n - 1) % nl>>]
        kept(t) == /\ t[2] < t[1]
                   /\ \E q \in range(0, 3) : rm_[<<q, t[1], t[2]>>] # complex(0, 0)
                   /\ x[<<t[3], t[1], t[2]>>] = 1
        sel == SelectSeq(all, kept)
    IN  [n \in 1..Len(sel) |-> <<sel[n][2], sel[n][1], sel[n][3]>>]

phase_equations(ne, nl, rm_, x) ==
    LET all == [n \in 1..(ne * ne * nl) |->
                   <<(n - 1) \div (ne * nl), ((n - 1) \div nl) % ne, (n - 1) % nl>>]
        kept(t) == /\ t[2] < t[1]
                   /\ \E q \in range(0, 3) : rm_[<<q, t[1], t[2]>>] # complex(0, 0)
                   /\ x[<<t[3], t[1], t[2]>>] = 1
    IN  SelectSeq(all, kept)

\* The phases, relative to the phase of level f, that the equations force on the
\* levels linked to f: the coefficients of the laser frequencies, found level by
\* level along the driven transitions.
RECURSIVE relative_phases(_, _, _, _)
relative_phases(p, eqs, nl, rounds) ==
    IF rounds = 0 THEN p
    ELSE LET known == DOMAIN p
             link(v) == {n \in 1..Len(eqs) :
                            \/ eqs[n][1] = v /\ eqs[n][2] \in known
                            \/ eqs[n][2] = v /\ eqs[n][1] \in known}
             fresh == {v \in UNION {{eqs[n][1], eqs[n][2]} : n \in 1..Len(eqs)} :
                          v \notin known /\ link(v) # {}}
             value(v) ==
                 LET n == CHOOSE m \in link(v) : \A m2 \in link(v) : m <= m2
                     e == eqs[n]
                 IN  IF e[1] = v
                     \* theta[i] = theta[j] - omega_laser[l]
                     THEN [l1 \in 1..nl |-> p[e[2]][l1] - (IF l1 = e[3] + 1 THEN 1 ELSE 0)]
                     \* theta[j] = theta[i] + omega_laser[l]
                     ELSE [l1 \in 1..nl |-> p[e[1]][l1] + (IF l1 = e[3] + 1 THEN 1 ELSE 0)]
         IN  relative_phases([v \in known \cup fresh |->
                                 IF v \in known THEN p[v] ELSE value(v)],
                             eqs, nl, rounds - 1)

\* What sympy.solve(eqs, theta, dict=True) finds.  A linear system is solved
\* for its leading symbols: of each group of linked levels the phase of highest
\* index stays free, and the other phases of the group are that phase plus laser
\* frequencies.
phase_group(eqs, nl, ne, v) ==
    DOMAIN relative_phases((v :> [l1 \in 1..nl |-> 0]), eqs, nl, ne)

free_phase(eqs, nl, ne, v) ==
    CHOOSE f \in phase_group(eqs, nl, ne, v) :
        \A w \in phase_group(eqs, nl, ne, v) : w <= f

\* Whether the phases found along the transitions fulfil every equation
\* -omega_laser[l] + theta[j] - theta[i] = 0.
equations_consistent(eqs, nl, ne) ==
    \A n \in 1..Len(eqs) :
        LET e == eqs[n]
            f == free_phase(eqs, nl, ne, e[1])
            p == relative_phases((f :> [l1 \in 1..nl |-> 0]), eqs, nl, ne)
        IN  p[e[1]] = [l1 \in 1..nl |-> p[e[2]][l1] - (IF l1 = e[3] + 1 THEN 1 ELSE 0)]

solutions_empty_mut(eqs, nl, ne) == eqs = <<>>

\* sympy.solve returns [] for no equation and for equations that contradict each
\* other; sol[0] then raises IndexError.
solutions_empty(eqs, nl, ne) == eqs = <<>> \/ ~equations_consistent(eqs, nl, ne)

solution_of_mut(f, pv, nl, ne) ==
    expr_sub(theta_term(nl, ne, f, 1),
             expr_sum(zero_expr(nl, ne),
                      [l1 \in 1..nl |-> varpi_term(nl, ne, l1 - 1, pv[l1])]))

\* One entry of sol: the free phase f of the group plus the laser frequencies pv.
solution_of(f, pv, nl, ne) ==
    expr_add(theta_term(nl, ne, f, 1),
             expr_sum(zero_expr(nl, ne),
                      [l1 \in 1..nl |-> varpi_term(nl, ne, l1 - 1, pv[l1])]))

solve_crit_mut(eq_crit, v, nl, ne) == expr_sub(eq_crit, theta_term(nl, ne, v, 1))

\* sympy.solve(eq_crit, extra_thetas[0])[0] for an eq_crit in which the phase v
\* has coefficient 1.
solve_crit(eq_crit, v, nl, ne) ==
    expr_scale(0 - 1, expr_sub(eq_crit, theta_term(nl, ne, v, 1)))

\* The routine after eqs.  sol[0] raises IndexError when there is no solution,
\* and so does sympy.solve(eq_crit, extra_thetas[0])[0] when eq_crit does not
\* hold extra_thetas[0].
phase_transformation(ne, nl, rm_, x) ==
    LET eqs == phase_equations(ne, nl, rm_, x)
        free(v) == free_phase(eqs, nl, ne, v)
        \* sol, with theta[i]: theta[i] added for the phases left out.
        sol(v) ==
            solution_of(free(v),
                        relative_phases((free(v) :> [l1 \in 1..nl |-> 0]),
                                        eqs, nl, ne)[v],
                        nl, ne)
        extra_thetas == {v \in range(0, ne) : free(v) = v}
        first_extra == CHOOSE v \in extra_thetas : \A w \in extra_thetas : v <= w
        \* eq_crit = sol[theta[0]] + omega_level[0], solved for extra_thetas[0].
        eq_crit == expr_add(sol(0), omega_term(nl, ne, 0, 1))
        ss == solve_crit(eq_crit, first_extra, nl, ne)
        subs(a) ==
            expr_add([a EXCEPT !.theta[first_extra + 1] = 0],
                     expr_scale(a.theta[first_extra + 1], ss))
    IN  IF solutions_empty(eqs, nl, ne)
        THEN [raised |-> "IndexError", theta |-> <<>>]
        ELSE IF eq_crit.theta[first_extra + 1] = 0
        THEN [raised |-> "IndexError", theta |-> <<>>]
        ELSE [raised |-> "none",
              theta |-> [n \in 1..ne |-> subs(sol(n - 1))]]

(***************************************************************************)
(* detunings_rewrite(expr, combs, omega_laser, symb_omega_levelu,          *)
(*                   omega_levelu, iu0, ju0)                               *)
(***************************************************************************)
\* expr_try of one comb.
expr_try(a, comb, nl, ne) ==
    expr_sum(zero_expr(nl, ne),
             [l1 \in 1..nl |->
                 expr_scale(a[l1],
                            expr_add(varpi_term(nl, ne, l1 - 1, 1),
                                     expr_add(omega_term(nl, ne, comb[l1][1], 0 - 1),
                                              omega_term(nl, ne, comb[l1][2], 1))))])

\* The sign the code writes in front of a term of coefficient c: none unless c is
\* 1 or -1.
sign_text(c) == IF c = 1 THEN <<"+">> ELSE IF c = 0 - 1 THEN <<"-">> ELSE <<>>

RECURSIVE rewrite_terms_mut(_, _, _, _, _)
rewrite_terms_mut(a, comb, success, nl, l) ==
    IF l \notin range(0, nl) THEN <<>>
    ELSE sign_text(a[l + 1])
         \o (IF success
             THEN delta_name(l, At(comb, l)[1], At(comb, l)[2])
             ELSE <<"detuning_knob[">> \o str_int(l) \o <<"]">>)
         \o rewrite_terms_mut(a, comb, success, nl, l + 1)

\* "for l in range(Nl)" of the branch taken, from l on.
RECURSIVE rewrite_terms(_, _, _, _, _)
rewrite_terms(a, comb, success, nl, l) ==
    IF l \notin range(0, nl) THEN <<>>
    ELSE (IF a[l + 1] # 0
          THEN sign_text(a[l + 1])
               \o (IF success
                   THEN delta_name(l, At(comb, l)[1], At(comb, l)[2])
                   ELSE <<"detuning_knob[">> \o str_int(l) \o <<"]">>)
          ELSE <<>>)
         \o rewrite_terms(a, comb, success, nl, l + 1)

detunings_rewrite_mut(expr, combs_, nl, ne) ==
    LET a == [l1 \in 1..nl |-> diff_varpi(expr, l1 - 1)]
        fits(n) == expr_is_zero(expr_sub(expr, expr_try(a, combs_[n], nl, ne)))
        success == \E n \in 1..Len(combs_) : fits(n)
        comb == IF success
                THEN combs_[CHOOSE n \in 1..Len(combs_) :
                                fits(n) /\ \A m \in (n + 1)..Len(combs_) : ~fits(m)]
                ELSE <<>>
    IN  rewrite_terms(a, comb, success, nl, 0)

\* The text assign.  The first comb whose weighted detunings equal expr is used;
\* without one the knobs stand in (the numeric remainder the source computes in
\* that branch is never written to the text).
detunings_rewrite(expr, combs_, nl, ne) ==
    LET a == [l1 \in 1..nl |-> diff_varpi(expr, l1 - 1)]
        fits(n) == expr_is_zero(expr_sub(expr, expr_try(a, combs_[n], nl, ne)))
        success == \E n \in 1..Len(combs_) : fits(n)
        comb == IF success
                THEN combs_[CHOOSE n \in 1..Len(combs_) :
                                fits(n) /\ \A m \in 1..(n - 1) : ~fits(m)]
                ELSE <<>>
    IN  rewrite_terms(a, comb, success, nl, 0)

\* Whether some comb fits: the branch "if success".
rewrite_success(expr, combs_, nl, ne) ==
    LET a == [l1 \in 1..nl |-> diff_varpi(expr, l1 - 1)]
    IN  \E n \in 1..Len(combs_) :
            expr_is_zero(expr_sub(expr, expr_try(a, combs_[n], nl, ne)))

\* The local "remainder" of the else branch: the level part of expr at the
\* numeric energies plus the reference transition of every field times its
\* coefficient.  The branch computes it and does not use it.
rewrite_remainder(expr, nl, neu, omega_levelu, iu0_, ju0_) ==
    LET a == [l1 \in 1..nl |-> diff_varpi(expr, l1 - 1)]
        b == [n \in 1..neu |-> diff_omega(expr, n - 1)]
        RECURSIVE total(_, _)
        total(f, n) == IF n = 0 THEN 0 ELSE f[n] + total(f, n - 1)
    IN  total([n \in 1..neu |-> b[n] * omega_levelu[n]], neu)
        + total([l1 \in 1..nl |->
                    a[l1] * (At(omega_levelu, At(iu0_, l1 - 1))
                             - At(omega_levelu, At(ju0_, l1 - 1)))], nl)

(***************************************************************************)
(* Text of complex numbers and lists.                                      *)
(***************************************************************************)
\* str(z) of a complex: "(1+2j)", and "2j" when the real part is zero.
str_complex_mut(z) ==
    IF z.re = 0 THEN str_int(z.im) \o <<"j">>
    ELSE <<"(">> \o str_int(z.re) \o <<"+">>
         \o str_int(IF z.im < 0 THEN 0 - z.im ELSE z.im) \o <<"j", ")">>

str_complex(z) ==
    IF z.re = 0 THEN str_int(z.im) \o <<"j">>
    ELSE <<"(">> \o str_int(z.re) \o (IF z.im < 0 THEN <<>> ELSE <<"+">>)
         \o str_int(z.im) \o <<"j", ")">>

\* The complex a literal denotes.
parse_complex(t) ==
    IF t[1] = "("
    THEN LET body == SubSeq(t, 2, Len(t) - 2)
             s == CHOOSE n \in 2..Len(body) :
                      /\ body[n] \in {"+", "-"}
                      /\ \A m \in (n + 1)..Len(body) : body[m] \notin {"+", "-"}
         IN  complex(parse_int(SubSeq(body, 1, s - 1)),
                     parse_int(IF body[s] = "+" THEN SubSeq(body, s + 1, Len(body))
                               ELSE SubSeq(body, s, Len(body))))
    ELSE complex(0, parse_int(SubSeq(t, 1, Len(t) - 1)))

\* "".join(l) of a list of texts.
RECURSIVE concat(_)
concat(l) == IF l = <<>> THEN <<>> ELSE Head(l) \o concat(Tail(l))

\* str(l) of a list of complex numbers.
str_list(l) ==
    <<"[">> \o concat([n \in 1..Len(l) |->
                          (IF n > 1 THEN <<", ">> ELSE <<>>) \o str_complex(l[n])])
            \o <<"]">>

\* t.split(sep)
RECURSIVE split(_, _)
split(t, sep) ==
    LET n == find(t, sep)
    IN  IF n = 0 THEN <<t>>
        ELSE <<SubSeq(t, 1, n - 1)>> \o split(SubSeq(t, n + 1, Len(t)), sep)

\* The list of complex numbers a literal "[.., .., ..]" denotes.
parse_list(t) ==
    LET items == split(SubSeq(t, 2, Len(t) - 1), ", ")
    IN  [n \in 1..Len(items) |-> parse_complex(items[n])]

(***************************************************************************)
(* fast_hamiltonian(Ep, epsilonp, detuning_knob, rm, omega_level, xi,      *)
(*                  theta): the text of the evaluator.                     *)
(***************************************************************************)
\* An argument item is a number or a sympy symbol.
Number(v) == [symbol |-> FALSE, value |-> v]

Symbol == [symbol |-> TRUE, value |-> 0]

\* Whether the conversion of the first n items of a list goes through:
\* complex(x) and float(x) raise TypeError on a symbol, and l[m] raises
\* IndexError past the end of the list.
converts(l, n) == Len(l) >= n /\ \A m \in 1..n : ~l[m].symbol

\* The three try/except blocks, each over "for l in range(Nl)" with
\* Nl = len(Ep): an argument that raises, whatever the error, is variable.
variable_Ep(Ep_) == ~converts(Ep_, Len(Ep_))

variable_epsilonp(epsilonp_, nl) ==
    ~(Len(epsilonp_) >= nl /\ \A l1 \in 1..nl : converts(epsilonp_[l1], 3))

variable_detuning_knob(detuning_knob_, nl) == ~converts(detuning_knob_, nl)

\* xi.shape[0]
xi_fields(x) == Cardinality({t[1] : t \in DOMAIN x})

\* The values of a list that converted.
values_of(l) == [n \in 1..Len(l) |-> l[n].value]

\* "def hamiltonian(...):" with the trailing ", " of the last parameter removed.
signature_code_mut(vEp, vepsilonp, vknob) ==
    LET code == <<"def hamiltonian(", "Ep", ", ">>
                \o (IF vepsilonp THEN <<"epsilonp", ", ">> ELSE <<>>)
                \o (IF vknob THEN <<"detuning_knob", ", ">> ELSE <<>>)
    IN  (IF code[Len(code)] = ", " THEN SubSeq(code, 1, Len(code) - 1) ELSE code)
        \o <<"):", "\n">>

signature_code(vEp, vepsilonp, vknob) ==
    LET code == <<"def hamiltonian(">>
                \o (IF vEp THEN <<"Ep", ", ">> ELSE <<>>)
                \o (IF vepsilonp THEN <<"epsilonp", ", ">> ELSE <<>>)
                \o (IF vknob THEN <<"detuning_knob", ", ">> ELSE <<>>)
    IN  (IF code[Len(code)] = ", " THEN SubSeq(code, 1, Len(code) - 1) ELSE code)
        \o <<"):", "\n">>

\* rm[:, i, j]
rm_column(rm_, i_, j_) == [q \in 1..3 |-> rm_[<<q - 1, i_, j_>>]]

\* The line of one driven transition (i, j) of field l.
below_diagonal_line(Ep_, epsilonp_, rm_, i_, j_, l) ==
    LET rmij == rm_column(rm_, i_, j_)
        scaled == [q \in 1..3 |-> cmul(rmij[q], complex(e_num, 0))]
        dp == cmul(cartesian_dot_product(values_of(At(epsilonp_, l)), rmij),
                   complex(e_num, 0))
    IN  <<"    H[">> \o str_int(i_) \o <<", ">> \o str_int(j_) \o <<"] = ">>
        \o (IF variable_Ep(Ep_)
            THEN <<"0.5*Ep[">> \o str_int(l) \o <<"]">>
            ELSE str_complex(half(At(Ep_, l).value)))
        \o (IF variable_epsilonp(epsilonp_, Len(Ep_))
            THEN <<"*cartesian_dot_product(", "epsilonp[">> \o str_int(l) \o <<"],">>
                 \o str_list(scaled) \o <<" )">>
            ELSE <<"*(">> \o str_complex(dp) \o <<")">>)
        \o <<"\n">>

\* "for i in range(Ne): for j in range(i): for l in range(Nl):
\*      if xi[l, i, j] == 1.0: ..."
below_diagonal_code(Ep_, epsilonp_, rm_, x, ne, nl) ==
    LET all == [n \in 1..(ne * ne * nl) |->
                   <<(n - 1) \div (ne * nl), ((n - 1) \div nl) % ne, (n - 1) % nl>>]
        driven(t) == t[2] < t[1] /\ x[<<t[3], t[1], t[2]>>] = 1
        sel == SelectSeq(all, driven)
    IN  concat([n \in 1..Len(sel) |->
                   below_diagonal_line(Ep_, epsilonp_, rm_,
                                       sel[n][1], sel[n][2], sel[n][3])])

above_diagonal_code_mut(ne) ==
    <<"\n", "    # We calculate the above-diagonal elements.", "\n",
      "    for i in range(">> \o str_int(ne) \o <<"):", "\n",
      "        for j in range(i+1, ">> \o str_int(ne) \o <<"):", "\n",
      "            H[i, j] = H[j, i]", "\n", "\n">>

above_diagonal_code(ne) ==
    <<"\n", "    # We calculate the above-diagonal elements.", "\n",
      "    for i in range(">> \o str_int(ne) \o <<"):", "\n",
      "        for j in range(i+1, ">> \o str_int(ne) \o <<"):", "\n",
      "            H[i, j] = H[j, i].conjugate()", "\n", "\n">>

\* The lines that set the fixed detuning knobs.
knob_code(detuning_knob_, nl) ==
    <<"    detuning_knob = np.zeros(">> \o str_int(nl) \o <<")", "\n">>
    \o concat([l1 \in 1..nl |->
                  <<"    detuning_knob[">> \o str_int(l1 - 1) \o <<"] = ">>
                  \o str_float(detuning_knob_[l1].value) \o <<"\n">>])

\* "for i in range(Ne)" of the diagonal: _Hii = theta[i] + _omega_levelu[u(i)].
diagonal_lines(theta_, u, combs_, ne, nl) ==
    concat([n \in 1..ne |->
               LET Hii == expr_add(At(theta_, n - 1), omega_term(nl, ne, u[n - 1], 1))
                   assign == detunings_rewrite(Hii, combs_, nl, ne)
               IN  IF assign # <<>>
                   THEN <<"    H[">> \o str_int(n - 1) \o <<", ">> \o str_int(n - 1)
                        \o <<"] = ">> \o assign \o <<"\n">>
                   ELSE <<>>])

\* The whole text.  xi[l, i, j] raises IndexError for a field that xi does not
\* have, and find_omega_min can raise on the way.
fast_hamiltonian(Ep_, epsilonp_, detuning_knob_, rm_, omega, x, theta_, ne) ==
    LET nl == Len(Ep_)
        aux == define_simplification(omega, x, nl)
        fo == find_omega_min(aux.omega_levelu, aux.Neu, nl, aux.xiu)
        pairs_ == detunings_indices(aux.Neu, nl, aux.xiu)
        combs_ == detunings_combinations(pairs_)
        code ==
            signature_code(variable_Ep(Ep_), variable_epsilonp(epsilonp_, nl),
                           variable_detuning_knob(detuning_knob_, nl))
            \o <<"    r\"\"\"A fast calculation of the hamiltonian.\"\"\"", "\n">>
            \o <<"    H = np.zeros((">> \o str_int(ne) \o <<", ">> \o str_int(ne)
            \o <<"), complex)", "\n", "\n">>
            \o <<"    # We calculate the below-diagonal elements.", "\n">>
            \o below_diagonal_code(Ep_, epsilonp_, rm_, x, ne, nl)
            \o above_diagonal_code(ne)
            \o <<"    # We calculate the diagonal elements.", "\n">>
            \o (IF variable_detuning_knob(detuning_knob_, nl) THEN <<>>
                ELSE knob_code(detuning_knob_, nl))
            \o detunings_code(aux.Neu, nl, pairs_, aux.omega_levelu, fo.iu0, fo.ju0)
            \o <<"\n">>
            \o diagonal_lines(theta_, aux.u, combs_, ne, nl)
            \o <<"\n">>
            \o <<"    for i in range(">> \o str_int(ne) \o <<"):", "\n">>
            \o <<"        H[i, i] = H[i, i]*">> \o str_float(hbar_num) \o <<"\n">>
            \o <<"    return H", "\n">>
    IN  IF nl > xi_fields(x) /\ ne >= 2
        THEN [raised |-> "IndexError", code |-> <<>>]
        ELSE IF fo.raised # "none" THEN [raised |-> fo.raised, code |-> <<>>]
        ELSE [raised |-> "none", code |-> code]

(***************************************************************************)
(* The evaluator: what Python makes of the text ("exec hamiltonian") and   *)
(* of a call of the function it defines.                                   *)
(***************************************************************************)
\* The parameter names of the "def" line.
parameters(code) ==
    LET line == Head(splitlines(code))
        inner == SubSeq(line, 2, Len(line) - 1)
        names == split(inner, ", ")
    IN  IF inner = <<>> THEN <<>> ELSE [n \in 1..Len(names) |-> names[n][1]]

IsSign(c) == c \in {"+", "-"}

\* The first sign of a text at or after position n, Len + 1 when there is none.
next_sign(t, n) ==
    IF \E m \in n..Len(t) : IsSign(t[m])
    THEN CHOOSE m \in n..Len(t) : IsSign(t[m]) /\ \A m2 \in n..(m - 1) : ~IsSign(t[m2])
    ELSE Len(t) + 1

\* An operand of a diagonal assignment: a name, a subscripted knob, or neither.
is_name(atom) ==
    /\ atom # <<>>
    /\ atom[1] = "delta"
    /\ \A n \in 1..Len(atom) : atom[n] \in {"delta", "_"} \/ IsDigit(atom[n])

is_knob(atom) ==
    /\ Len(atom) >= 3
    /\ atom[1] = "detuning_knob["
    /\ atom[Len(atom)] = "]"
    /\ \A n \in 2..(Len(atom) - 1) : IsDigit(atom[n])

\* Whether a text is a signed sum of operands.
RECURSIVE is_expression(_)
is_expression(t) ==
    IF t = <<>> THEN TRUE
    ELSE LET first == IF IsSign(t[1]) THEN 2 ELSE 1
             stop == next_sign(t, first)
             atom == SubSeq(t, first, stop - 1)
         IN  /\ is_name(atom) \/ is_knob(atom)
             /\ is_expression(SubSeq(t, stop, Len(t)))

\* The value of a signed sum of operands, left to right.
RECURSIVE eval_sum(_, _, _)
eval_sum(t, env, knob) ==
    IF t = <<>> THEN [raised |-> "none", value |-> 0]
    ELSE LET first == IF IsSign(t[1]) THEN 2 ELSE 1
             sgn == IF t[1] = "-" THEN 0 - 1 ELSE 1
             stop == next_sign(t, first)
             atom == SubSeq(t, first, stop - 1)
             rest == eval_sum(SubSeq(t, stop, Len(t)), env, knob)
         IN  IF is_name(atom) /\ atom \notin DOMAIN env
             THEN [raised |-> "NameError", value |-> 0]
             ELSE IF rest.raised # "none" THEN rest
             ELSE [raised |-> "none",
                   value |-> rest.value
                             + sgn * (IF is_name(atom) THEN env[atom]
                                      ELSE At(knob, parse_int(
                                                  SubSeq(atom, 2, Len(atom) - 1))))]

\* Whether a line assigns a product of an amplitude and a dipole projection.
is_product(line) ==
    find(line, "*cartesian_dot_product(") # 0 \/ find(line, "*(") # 0

\* The right-hand side of such a line, for the arguments of the call.
eval_product(rhs, args) ==
    LET m == IF find(rhs, "*cartesian_dot_product(") # 0
             THEN find(rhs, "*cartesian_dot_product(") ELSE find(rhs, "*(")
        amplitude == SubSeq(rhs, 1, m - 1)
        f1 == IF amplitude[1] = "0.5*Ep["
              THEN half(At(args.Ep, parse_int(SubSeq(amplitude, 2, Len(amplitude) - 1))))
              ELSE parse_complex(amplitude)
        f2 == IF rhs[m] = "*cartesian_dot_product("
              THEN LET r == find(rhs, "],")
                   IN  cartesian_dot_product(
                           At(args.epsilonp, parse_int(SubSeq(rhs, m + 2, r - 1))),
                           parse_list(SubSeq(rhs, r + 1, Len(rhs) - 1)))
              ELSE parse_complex(SubSeq(rhs, m + 1, Len(rhs) - 1))
    IN  cmul(f1, f2)

\* One line of the body run in the frame st.
np_zeros_mut(n) ==
    IF DOMAIN H = range(0, n) \X range(0, n) THEN H
    ELSE [t \in range(0, n) \X range(0, n) |-> complex(0, 0)]

\* np.zeros((n, n), complex): a new array at every call.
np_zeros(n) == [t \in range(0, n) \X range(0, n) |-> complex(0, 0)]

\* One line of the body.
exec_line(st, line, args) ==
    IF line = <<>> \/ st.raised # "none" THEN st
    ELSE IF line[1] = "    H = np.zeros(("
    THEN [st EXCEPT !.H = np_zeros(parse_int(SubSeq(line, 2, find(line, ", ") - 1)))]
    ELSE IF line[1] = "    H["
    THEN LET p == find(line, ", ")
             q == find(line, "] = ")
             row == parse_int(SubSeq(line, 2, p - 1))
             col == parse_int(SubSeq(line, p + 1, q - 1))
             rhs == SubSeq(line, q + 1, Len(line))
             v == eval_sum(rhs, st.env, st.knob)
         IN  IF is_product(line)
             THEN [st EXCEPT !.H[<<row, col>>] = eval_product(rhs, args)]
             ELSE IF v.raised # "none" THEN [st EXCEPT !.raised = v.raised]
             ELSE [st EXCEPT !.H[<<row, col>>] = complex(v.value, 0)]
    ELSE IF line[1] = "    for i in range("
    THEN [st EXCEPT !.n = parse_int(SubSeq(line, 2, Len(line) - 1))]
    ELSE IF line[1] = "            H[i, j] = H[j, i].conjugate()"
    THEN [st EXCEPT !.H = [t \in DOMAIN st.H |->
                              IF t[1] \in range(0, st.n) /\ t[2] \in range(t[1] + 1, st.n)
                              THEN conjugate(st.H[<<t[2], t[1]>>]) ELSE st.H[t]]]
    ELSE IF line[1] = "            H[i, j] = H[j, i]"
    THEN [st EXCEPT !.H = [t \in DOMAIN st.H |->
                              IF t[1] \in range(0, st.n) /\ t[2] \in range(t[1] + 1, st.n)
                              THEN st.H[<<t[2], t[1]>>] ELSE st.H[t]]]
    ELSE IF line[1] = "        H[i, i] = H[i, i]*"
    THEN LET c == parse_float(Tail(line))
         IN  [st EXCEPT !.H = [t \in DOMAIN st.H |->
                                  IF t[1] = t[2] /\ t[1] \in range(0, st.n)
                                  THEN cmul(st.H[t], complex(c, 0)) ELSE st.H[t]]]
    ELSE IF line[1] = "    detuning_knob = np.zeros("
    THEN [st EXCEPT !.knob = [l1 \in 1..parse_int(SubSeq(line, 2, Len(line) - 1)) |-> 0]]
    ELSE IF line[1] = "    detuning_knob["
    THEN LET q == find(line, "] = ")
         IN  [st EXCEPT !.knob[parse_int(SubSeq(line, 2, q - 1)) + 1] =
                            parse_float(SubSeq(line, q + 1, Len(line)))]
    ELSE IF line[1] = "    " /\ Len(line) > 1
    THEN LET d == parse_detuning_line(line)
         IN  [st EXCEPT !.env = update(st.env, d.name, At(st.knob, d.knob) + d.corr)]
    \* def, docstring, comments, the inner "for" and "return H".
    ELSE st

RECURSIVE exec_lines(_, _, _)
exec_lines(st, lines, args) ==
    IF lines = <<>> THEN st
    ELSE exec_lines(exec_line(st, Head(lines), args), Tail(lines), args)

\* "exec hamiltonian": compiling the text raises SyntaxError when an assignment
\* is not an expression.
exec(code) ==
    LET lines == splitlines(code)
        bad(line) == /\ line # <<>>
                     /\ line[1] = "    H["
                     /\ ~is_product(line)
                     /\ ~is_expression(SubSeq(line, find(line, "] = ") + 1, Len(line)))
    IN  IF \E n \in 1..Len(lines) : bad(lines[n]) THEN "SyntaxError" ELSE "none"

\* hamiltonian(*call): the positional arguments bound to the parameters, then the
\* body.
call_hamiltonian(code, call) ==
    LET params == parameters(code)
        bound(name) ==
            IF \E n \in 1..Len(params) : params[n] = name
            THEN call[CHOOSE n \in 1..Len(params) : params[n] = name]
            ELSE <<>>
        args == [Ep |-> bound("Ep"), epsilonp |-> bound("epsilonp")]
        st == exec_lines([raised |-> "none", H |-> EmptyDict, n |-> 0,
                          knob |-> bound("detuning_knob"), env |-> EmptyDict],
                         Tail(splitlines(code)), args)
    IN  IF Len(params) # Len(call) THEN [raised |-> "TypeError", H |-> EmptyDict]
        ELSE [raised |-> st.raised, H |-> st.H]

\* The routines that are not running hold no data.
VecIdle ==
    /\ Nv = 0 /\ real = FALSE /\ lower_triangular = FALSE /\ normalized = FALSE
    /\ comp_map = EmptyDict /\ comp_map_inv = EmptyDict
    /\ real_map = EmptyDict /\ real_map_inv = EmptyDict
    /\ mu_comp = 0 /\ mu_real = 0
    /\ k = 0 /\ i = 0 /\ j = 0
    /\ Mu = EmptyDict /\ IJ = EmptyDict
    /\ lookup = EmptyDict

DetIdle ==
    /\ Nl = 0 /\ omega_level = <<>> /\ xi = EmptyDict
    /\ simp = EmptyDict
    /\ omega_min = <<>> /\ iu0 = <<>> /\ ju0 = <<>>
    /\ pairs = <<>> /\ code_det = <<>> /\ combs = <<>>

HamIdle ==
    /\ rm = EmptyDict /\ theta = <<>>
    /\ values = EmptyDict /\ symbolic = EmptyDict
    /\ hamiltonian = <<>> /\ H = EmptyDict /\ calls = <<>>

RwIdle == expression = EmptyDict /\ expression_code = <<>>

(***************************************************************************)
(* vectorization(Ne, Nv, real, lower_triangular, normalized)               *)
(***************************************************************************)
\* The four dicts and the two counters as one record.
VecState == [comp_map |-> comp_map, comp_map_inv |-> comp_map_inv,
             real_map |-> real_map, real_map_inv |-> real_map_inv,
             mu_comp |-> mu_comp, mu_real |-> mu_real]

comp_entry_mut(st, a, b, g) ==
    [st EXCEPT !.comp_map = update(st.comp_map, <<a, b, g>>, st.mu_comp),
               !.comp_map_inv = update(st.comp_map_inv, st.mu_comp, <<a, b, g>>),
               !.mu_comp = st.mu_comp + (IF g = 0 THEN 1 ELSE 2)]

\* One complex entry (a, b, g): comp_map, comp_map_inv, mu_comp += 1.
comp_entry(st, a, b, g) ==
    [st EXCEPT !.comp_map = update(st.comp_map, <<a, b, g>>, st.mu_comp),
               !.comp_map_inv = update(st.comp_map_inv, st.mu_comp, <<a, b, g>>),
               !.mu_comp = st.mu_comp + 1]

\* One real entry (s, a, b, g): real_map, real_map_inv, mu_real += 1.
real_entry(st, s, a, b, g) ==
    [st EXCEPT !.real_map = update(st.real_map, <<s, a, b, g>>, st.mu_real),
               !.real_map_inv = update(st.real_map_inv, st.mu_real, <<s, a, b, g>>),
               !.mu_real = st.mu_real + 1]

\* The body of "for i in range(start, Ne)": the population (ii, ii) of group g.
population_body(st, ii, g) ==
    real_entry(comp_entry(st, ii, ii, g), 1, ii, ii, g)

\* for s in [1, -1]: the two real entries of the coherence (a, b).
real_pair_mut(st, a, b, g) ==
    LET s1 == real_entry(st, 1, a, b, g)
    IN  [real_entry(s1, -1, a, b, g) EXCEPT !.mu_real = s1.mu_real]

real_pair(st, a, b, g) ==
    real_entry(real_entry(st, 1, a, b, g), -1, a, b, g)

coherence_body_mut(st, ii, jj, g, lt) ==
    LET upper == IF ~lt THEN real_pair(comp_entry(st, jj, ii, g), jj, ii, g) ELSE st
    IN  real_pair(comp_entry(upper, ii, jj, g), ii, jj, g)

\* The body of "for i in range(j+1, Ne)": the coherence (ii, jj) of group g and,
\* unless lower_triangular, its transpose (jj, ii).
coherence_body(st, ii, jj, g, lt) ==
    LET lower == real_pair(comp_entry(st, ii, jj, g), ii, jj, g)
    IN  IF ~lt THEN real_pair(comp_entry(lower, jj, ii, g), jj, ii, g)
        ELSE lower

VecInit ==
    /\ pc = "vec_group"
    /\ Ne \in 1..MaxNeVec
    /\ Nv \in 1..MaxNv
    /\ real \in BOOLEAN
    /\ lower_triangular \in BOOLEAN
    /\ normalized \in BOOLEAN
    /\ comp_map = EmptyDict /\ comp_map_inv = EmptyDict
    /\ real_map = EmptyDict /\ real_map_inv = EmptyDict
    /\ mu_comp = 0 /\ mu_real = 0
    /\ k = 0 /\ i = 0 /\ j = 0
    /\ Mu = EmptyDict /\ IJ = EmptyDict
    /\ lookup = EmptyDict
    /\ err = "none"
    /\ DetIdle
    /\ HamIdle
    /\ RwIdle

VecStore(st) ==
    /\ comp_map' = st.comp_map
    /\ comp_map_inv' = st.comp_map_inv
    /\ real_map' = st.real_map
    /\ real_map_inv' = st.real_map_inv
    /\ mu_comp' = st.mu_comp
    /\ mu_real' = st.mu_real

VecConfigUnchanged ==
    /\ UNCHANGED <<Ne, Nv, real, lower_triangular, normalized, lookup>>
    /\ UNCHANGED <<err, detVars, hamVars, rwVars>>

\* for k in range(Nv): enter the next group, or leave the loop.
VecGroup ==
    /\ pc = "vec_group"
    /\ IF k \in range(0, Nv)
       THEN /\ i' = (IF normalized THEN 1 ELSE 0)
            /\ pc' = "vec_pop"
       ELSE /\ i' = i
            /\ pc' = "vec_return"
    /\ UNCHANGED <<comp_map, comp_map_inv, real_map, real_map_inv,
                   mu_comp, mu_real, k, j, Mu, IJ>>
    /\ VecConfigUnchanged

\* for i in range(start, Ne): one population.
VecPopulation ==
    /\ pc = "vec_pop"
    /\ i \in range(0, Ne)
    /\ VecStore(population_body(VecState, i, k))
    /\ i' = i + 1
    /\ UNCHANGED <<pc, k, j, Mu, IJ>>
    /\ VecConfigUnchanged

\* The population loop is exhausted: start "for j in range(Ne)".
VecPopulationsDone ==
    /\ pc = "vec_pop"
    /\ i \notin range(0, Ne)
    /\ j' = 0
    /\ i' = 1
    /\ pc' = "vec_coh"
    /\ UNCHANGED <<comp_map, comp_map_inv, real_map, real_map_inv,
                   mu_comp, mu_real, k, Mu, IJ>>
    /\ VecConfigUnchanged

\* for i in range(j+1, Ne): one coherence (and its transpose).
VecCoherence ==
    /\ pc = "vec_coh"
    /\ j \in range(0, Ne)
    /\ i \in range(j+1, Ne)
    /\ VecStore(coherence_body(VecState, i, j, k, lower_triangular))
    /\ i' = i + 1
    /\ UNCHANGED <<pc, k, j, Mu, IJ>>
    /\ VecConfigUnchanged

\* The inner loop is exhausted: next j.
VecNextJ ==
    /\ pc = "vec_coh"
    /\ j \in range(0, Ne)
    /\ i \notin range(j+1, Ne)
    /\ j' = j + 1
    /\ i' = j + 2
    /\ UNCHANGED <<pc, comp_map, comp_map_inv, real_map, real_map_inv,
                   mu_comp, mu_real, k, Mu, IJ>>
    /\ VecConfigUnchanged

\* The coherence loops are exhausted: next group.
VecGroupDone ==
    /\ pc = "vec_coh"
    /\ j \notin range(0, Ne)
    /\ k' = k + 1
    /\ pc' = "vec_group"
    /\ UNCHANGED <<comp_map, comp_map_inv, real_map, real_map_inv,
                   mu_comp, mu_real, i, j, Mu, IJ>>
    /\ VecConfigUnchanged

\* if real: return Mu_real, IJ_real  else: return Mu_comp, IJ_comp
VecReturn ==
    /\ pc = "vec_return"
    /\ Mu' = (IF real THEN real_map ELSE comp_map)
    /\ IJ' = (IF real THEN real_map_inv ELSE comp_map_inv)
    /\ pc' = "vec_done"
    /\ UNCHANGED <<comp_map, comp_map_inv, real_map, real_map_inv,
                   mu_comp, mu_real, k, i, j>>
    /\ VecConfigUnchanged

Mu_call_mut(map, x) ==
    IF x \in DOMAIN map
    THEN [x |-> x, raised |-> "none", mu |-> map[x], map |-> map]
    ELSE [x |-> x, raised |-> "none", mu |-> Cardinality(DOMAIN map),
          map |-> update(map, x, Cardinality(DOMAIN map))]

\* Mu_comp(i, j, k) / Mu_real(s, i, j, k): "return comp_map[(i, j, k)]", a plain
\* subscription: KeyError for a key that is not there, and the dict as it was.
Mu_call(map, x) ==
    IF x \in DOMAIN map
    THEN [x |-> x, raised |-> "none", mu |-> map[x], map |-> map]
    ELSE [x |-> x, raised |-> "KeyError", mu |-> 0 - 1, map |-> map]

\* The coordinates a caller may ask for: those of the system and some beyond.
LookupArguments ==
    LET triples == range(0, Ne + 1) \X range(0, Ne + 1) \X range(0, Nv + 1)
    IN  IF real
        THEN {<<s, c[1], c[2], c[3]>> : s \in {0 - 1, 0, 1}, c \in triples}
        ELSE triples

\* mu = Mu(...), after vectorization returned.
VecLookup ==
    /\ pc \in {"vec_done", "vec_called"}
    /\ \E x \in LookupArguments :
          LET r == Mu_call(Mu, x)
          IN  /\ lookup' = [x |-> r.x, raised |-> r.raised, mu |-> r.mu]
              /\ Mu' = r.map
    /\ pc' = "vec_called"
    /\ UNCHANGED <<comp_map, comp_map_inv, real_map, real_map_inv,
                   mu_comp, mu_real, k, i, j, IJ>>
    /\ UNCHANGED <<Ne, Nv, real, lower_triangular, normalized>>
    /\ UNCHANGED <<err, detVars, hamVars, rwVars>>

VecNext ==
    \/ VecGroup
    \/ VecPopulation
    \/ VecPopulationsDone
    \/ VecCoherence
    \/ VecNextJ
    \/ VecGroupDone
    \/ VecReturn
    \/ VecLookup

SpecVec == VecInit /\ [][VecNext]_vars

(***************************************************************************)
(* Claims about vectorization.                                             *)
(***************************************************************************)
\* The coordinates of the configured domain: per group the populations (without
\* state 0 when normalized), the coherences below the diagonal and, unless
\* lower_triangular, those above it; in the real encoding with the sign tag.
Coordinates ==
    LET pops == {<<a, a, g>> : a \in range(IF normalized THEN 1 ELSE 0, Ne),
                               g \in range(0, Nv)}
        cohs == {c \in range(0, Ne) \X range(0, Ne) \X range(0, Nv) :
                    \/ c[1] > c[2]
                    \/ c[1] < c[2] /\ ~lower_triangular}
    IN  IF real
        THEN {<<1, c[1], c[2], c[3]>> : c \in pops}
             \cup {<<s, c[1], c[2], c[3]>> : s \in {1, -1}, c \in cohs}
        ELSE pops \cup cohs

\* C1: once vectorization has returned, Mu and IJ are two-sided inverses: Mu is
\* defined on every coordinate x of the configured domain with IJ(Mu(x)) = x, and
\* for every assigned index mu, Mu(IJ(mu)) = mu.
C1_RoundTrip ==
    pc = "vec_done" =>
        /\ \A x \in Coordinates :
              /\ x \in DOMAIN Mu
              /\ Mu[x] \in DOMAIN IJ
              /\ IJ[Mu[x]] = x
        /\ \A mu \in DOMAIN IJ :
              /\ IJ[mu] \in DOMAIN Mu
              /\ Mu[IJ[mu]] = mu

C1_Witness ==
    /\ pc = "vec_done"
    /\ Ne = 3 /\ Nv = 2 /\ real /\ ~lower_triangular /\ normalized
    /\ Cardinality(DOMAIN Mu) = 28
    /\ Mu[<<-1, 1, 2, 1>>] = 27

(***************************************************************************)
(* The detuning routines, called in the order in which fast_hamiltonian    *)
(* and the doctests call them.                                             *)
(***************************************************************************)
\* The subsets of S of at most n elements.
RECURSIVE SubsetsUpTo(_, _)
SubsetsUpTo(S, n) ==
    IF n = 0 THEN {{}}
    ELSE LET prev == SubsetsUpTo(S, n - 1)
         IN  prev \cup {c \cup {x} : c \in prev, x \in S}

\* The transitions (l, i, j), i > j, that a field l can drive among ne levels.
Transitions(nl, ne) ==
    {t \in range(0, nl) \X range(0, ne) \X range(0, ne) : t[2] > t[3]}

\* The tensor xi of a set of driven transitions: symmetric in (i, j).
xi_of(coup, nl, ne) ==
    [t \in range(0, nl) \X range(0, ne) \X range(0, ne) |->
        IF <<t[1], t[2], t[3]>> \in coup \/ <<t[1], t[3], t[2]>> \in coup
        THEN 1 ELSE 0]

\* The energy lists the caller may pass: non-decreasing.
SortedEnergies(ne, top) ==
    {w \in [1..ne -> 0..top] : \A n \in 1..(ne - 1) : w[n] <= w[n + 1]}

\* The 6-level, 2-field system of the doctests.
ExampleOmega == <<0, 100, 100, 200, 200, 300>>
ExampleCoup == {<<0, 1, 0>>, <<0, 2, 0>>, <<1, 3, 0>>, <<1, 4, 0>>, <<1, 5, 0>>}

DetResultsEmpty ==
    /\ simp = EmptyDict
    /\ omega_min = <<>> /\ iu0 = <<>> /\ ju0 = <<>>
    /\ pairs = <<>> /\ code_det = <<>> /\ combs = <<>>

DetInputs(maxNe, maxNl, maxCoup, energies(_)) ==
    \/ /\ Ne \in 1..maxNe
       /\ Nl \in 1..maxNl
       /\ omega_level \in energies(Ne)
       /\ \E coup \in SubsetsUpTo(Transitions(Nl, Ne), maxCoup) :
             xi = xi_of(coup, Nl, Ne)
    \/ /\ Ne = 6
       /\ Nl = 2
       /\ omega_level = ExampleOmega
       /\ xi = xi_of(ExampleCoup, 2, 6)

DetInitWith(maxNe, maxNl, maxCoup, energies(_)) ==
    /\ pc = "det_start"
    /\ err = "none"
    /\ DetInputs(maxNe, maxNl, maxCoup, energies)
    /\ DetResultsEmpty
    /\ VecIdle
    /\ HamIdle
    /\ RwIdle

BoundedEnergies(ne) == SortedEnergies(ne, MaxOmega)

\* One energy list per level count, all levels distinct.
DistinctEnergies(ne) == {[n \in 1..ne |-> n - 1]}

DetInit == DetInitWith(MaxNe, MaxNl, MaxCoup, BoundedEnergies)

CombInit == DetInitWith(MaxNe, MaxNlComb, MaxCoupComb, DistinctEnergies)

DetFrame == UNCHANGED <<vecVars, Nl, omega_level, xi, hamVars, rwVars>>

DetSimplify ==
    /\ pc = "det_start"
    /\ simp' = define_simplification(omega_level, xi, Nl)
    /\ pc' = "det_simplified"
    /\ UNCHANGED <<err, omega_min, iu0, ju0, pairs, code_det, combs>>
    /\ DetFrame

DetFindOmegaMin ==
    /\ pc = "det_simplified"
    /\ LET r == find_omega_min(simp.omega_levelu, simp.Neu, Nl, simp.xiu)
       IN  IF r.raised # "none"
           THEN /\ err' = r.raised
                /\ pc' = "det_error"
                /\ UNCHANGED <<omega_min, iu0, ju0>>
           ELSE /\ omega_min' = r.omega_min
                /\ iu0' = r.iu0
                /\ ju0' = r.ju0
                /\ pc' = "det_min"
                /\ err' = err
    /\ UNCHANGED <<simp, pairs, code_det, combs>>
    /\ DetFrame

\* After find_omega_min (fast_hamiltonian) or right after the simplification
\* (the doctest of detunings_combinations).
DetIndices ==
    /\ pc \in {"det_simplified", "det_min"}
    /\ pairs' = detunings_indices(simp.Neu, Nl, simp.xiu)
    /\ pc' = (IF pc = "det_min" THEN "det_pairs" ELSE "det_pairs_only")
    /\ UNCHANGED <<err, simp, omega_min, iu0, ju0, code_det, combs>>
    /\ DetFrame

DetCode ==
    /\ pc = "det_pairs"
    /\ code_det' = detunings_code(simp.Neu, Nl, pairs, simp.omega_levelu, iu0, ju0)
    /\ pc' = "det_code"
    /\ UNCHANGED <<err, simp, omega_min, iu0, ju0, pairs, combs>>
    /\ DetFrame

DetCombinations ==
    /\ pc \in {"det_code", "det_pairs_only"}
    /\ combs' = detunings_combinations(pairs)
    /\ pc' = "det_done"
    /\ UNCHANGED <<err, simp, omega_min, iu0, ju0, pairs, code_det>>
    /\ DetFrame

DetNext ==
    \/ DetSimplify
    \/ DetFindOmegaMin
    \/ DetIndices
    \/ DetCode
    \/ DetCombinations

SpecDet == DetInit /\ [][DetNext]_vars

SpecComb == CombInit /\ [][DetNext]_vars

(***************************************************************************)
(* Claims about the detuning routines.                                     *)
(***************************************************************************)
\* The coupled pairs (l, iu, ju) that detunings_code was given.
CoupledPairs ==
    UNION {{<<l, At(pairs, l)[n][1], At(pairs, l)[n][2]>> :
               n \in 1..Len(At(pairs, l))} : l \in range(0, Nl)}

\* The constant of the emitted assignment of the pair (iu, ju) of field l.
EmittedConstant(l, iu, ju) ==
    LET lines == splitlines(code_det)
        n == CHOOSE m \in 1..Len(lines) :
                 parse_detuning_line(lines[m]).name = delta_name(l, iu, ju)
    IN  parse_detuning_line(lines[n]).corr

\* Every coupled pair has exactly one emitted assignment.
OneLinePerPair ==
    LET lines == splitlines(code_det)
    IN  /\ Len(lines) = Cardinality(CoupledPairs)
        /\ \A p \in CoupledPairs :
              \E m \in 1..Len(lines) :
                  parse_detuning_line(lines[m]).name = delta_name(p[1], p[2], p[3])

\* The knob values of laser frequencies W (the same for every field here):
\* detuning_knob[l] = W - (omega_levelu[iu0] - omega_levelu[ju0]).
KnobOf(W) ==
    [l1 \in 1..Nl |->
        W - (At(simp.omega_levelu, iu0[l1]) - At(simp.omega_levelu, ju0[l1]))]

\* C6 (as claimed): with detuning_knob[l] set to the detuning of the reference
\* transition, every emitted delta_l_iu_ju evaluates to the true detuning
\* W_l - (omega_levelu[iu] - omega_levelu[ju]) of its pair.
C6_TrueDetuning ==
    pc = "det_code" =>
        \A W \in 0..MaxOmega : \A p \in CoupledPairs :
            exec_detunings(code_det, KnobOf(W))[delta_name(p[1], p[2], p[3])]
              = W - (At(simp.omega_levelu, p[2]) - At(simp.omega_levelu, p[3]))

\* C7 (as claimed): the emitted constant of every coupled pair is
\* (omega_levelu[ju0] - omega_levelu[ju]) - (omega_levelu[iu0] - omega_levelu[iu]).
C7_Original ==
    pc = "det_code" =>
        \A p \in CoupledPairs :
            EmittedConstant(p[1], p[2], p[3])
              = (At(simp.omega_levelu, At(ju0, p[1])) - At(simp.omega_levelu, p[3]))
                - (At(simp.omega_levelu, At(iu0, p[1])) - At(simp.omega_levelu, p[2]))

\* C7 (amended): every coupled pair has one emitted assignment, and its constant
\* is (omega_levelu[ju0] - omega_levelu[ju]) + (omega_levelu[iu0] - omega_levelu[iu]).
C7_Amended ==
    pc = "det_code" =>
        /\ OneLinePerPair
        /\ \A p \in CoupledPairs :
            EmittedConstant(p[1], p[2], p[3])
              = (At(simp.omega_levelu, At(ju0, p[1])) - At(simp.omega_levelu, p[3]))
                + (At(simp.omega_levelu, At(iu0, p[1])) - At(simp.omega_levelu, p[2]))

\* A field with a reference pair and another pair of a different upper class and
\* a different lower class.
C7_Witness ==
    /\ pc = "det_code"
    /\ \E p \in CoupledPairs :
          /\ p[2] # At(iu0, p[1])
          /\ p[3] # At(ju0, p[1])
          /\ EmittedConstant(p[1], p[2], p[3]) # 0

IsExample ==
    /\ Ne = 6 /\ Nl = 2
    /\ omega_level = ExampleOmega
    /\ xi = xi_of(ExampleCoup, 2, 6)

\* The text the doctest of detunings_code prints.
ExampleCode ==
    <<"    ", "delta", "1", "_", "2", "_", "1", " = detuning_knob[", "0", "]", "\n",
      "    ", "delta", "2", "_", "3", "_", "1", " = detuning_knob[", "1", "]", "\n",
      "    ", "delta", "2", "_", "4", "_", "1", " = detuning_knob[", "1", "]",
      " + (", "-", "1", "0", "0", ".", "0", ")", "\n">>

\* C8: on the 6-level, 2-field example detunings_code emits exactly three
\* assignments: delta1_2_1 and delta2_3_1 without a constant, delta2_4_1 with -100.
C8_Example ==
    (pc = "det_code" /\ IsExample) =>
        /\ code_det = ExampleCode
        /\ Len(splitlines(code_det)) = 3
        /\ EmittedConstant(0, 1, 0) = 0
        /\ EmittedConstant(1, 2, 0) = 0
        /\ EmittedConstant(1, 3, 0) = 0 - 100

C8_Witness ==
    /\ pc = "det_code" /\ IsExample
    /\ simp.Neu = 4
    /\ pairs = <<<<<<1, 0>>>>, <<<<2, 0>>, <<3, 0>>>>>>
    /\ iu0 = <<1, 2>> /\ ju0 = <<0, 0>>

\* C9: for a non-decreasing energy list, u(i) = u(j) exactly when the energies are
\* equal; omega_levelu is strictly increasing and omega_levelu[u(i)] is the energy
\* of level i; Neu <= Ne; invu(iu) is the smallest level of class iu.
C9_Simplification ==
    pc # "det_start" =>
        LET u == simp.u
            invu == simp.invu
            omega_levelu == simp.omega_levelu
        IN  /\ DOMAIN u = range(0, Ne)
            /\ \A a, b \in range(0, Ne) :
                  (u[a] = u[b]) <=> (At(omega_level, a) = At(omega_level, b))
            /\ Len(omega_levelu) = simp.Neu
            /\ \A n \in 1..(simp.Neu - 1) : omega_levelu[n] < omega_levelu[n + 1]
            /\ \A a \in range(0, Ne) :
                  /\ u[a] \in range(0, simp.Neu)
                  /\ At(omega_levelu, u[a]) = At(omega_level, a)
            /\ simp.Neu <= Ne
            /\ DOMAIN invu = range(0, simp.Neu)
            /\ \A c \in range(0, simp.Neu) :
                  /\ invu[c] \in range(0, Ne)
                  /\ u[invu[c]] = c
                  /\ \A a \in range(0, Ne) : u[a] = c => invu[c] <= a

\* A degenerate class that is not the lowest one.
C9_Witness ==
    /\ pc = "det_simplified"
    /\ Ne = 3
    /\ simp.Neu = 2
    /\ simp.u[1] = 1 /\ simp.u[2] = 1
    /\ simp.invu[1] = 1

\* The choices of one pair per field, as lists.
RECURSIVE Choices(_)
Choices(ps) ==
    IF ps = <<>> THEN {<<>>}
    ELSE {Append(c, ps[Len(ps)][n]) :
             c \in Choices(SubSeq(ps, 1, Len(ps) - 1)), n \in 1..Len(ps[Len(ps)])}

RECURSIVE Product(_)
Product(l) == IF l = <<>> THEN 1 ELSE Head(l) * Product(Tail(l))

\* C10 (as claimed): detunings_combinations returns the cartesian product of the
\* per-field pair lists: every combination has Nl entries, the l-th one a pair of
\* field l; every choice appears exactly once.
C10_CartesianProduct ==
    pc = "det_done" =>
        /\ \A n \in 1..Len(combs) :
              /\ Len(combs[n]) = Nl
              /\ \A l1 \in 1..Nl : \E m \in 1..Len(pairs[l1]) :
                     combs[n][l1] = pairs[l1][m]
        /\ {combs[n] : n \in 1..Len(combs)} = Choices(pairs)
        /\ Len(combs) = Product([l1 \in 1..Nl |-> Len(pairs[l1])])
        /\ \A n, m \in 1..Len(combs) : combs[n] = combs[m] => n = m

(***************************************************************************)
(* Building an evaluator and calling it: phase_transformation or a theta   *)
(* written by hand, fast_hamiltonian, then hamiltonian(...).               *)
(***************************************************************************)
\* The energy lists: all levels distinct, or all excited levels degenerate.
\* Every field drives at least one transition.
HamEnergies(ne) ==
    DistinctEnergies(ne) \cup {[n \in 1..ne |-> IF n = 1 THEN 0 ELSE 1]}

\* Dipole elements, non-zero on the driven transitions below the diagonal: along
\* z and real as in the doctest, or complex along x, y and z.
RealDipoles(x, nl, ne) ==
    [t \in range(0, 3) \X range(0, ne) \X range(0, ne) |->
        IF t[1] = 2 /\ t[3] < t[2] /\ \E l \in range(0, nl) : x[<<l, t[2], t[3]>>] # 0
        THEN complex(t[2], 0) ELSE complex(0, 0)]

ComplexDipoles(x, nl, ne) ==
    [t \in range(0, 3) \X range(0, ne) \X range(0, ne) |->
        IF t[3] < t[2] /\ \E l \in range(0, nl) : x[<<l, t[2], t[3]>>] # 0
        THEN (IF t[1] = 0 THEN complex(t[2], t[3])
              ELSE IF t[1] = 1 THEN complex(0, 1)
              ELSE complex(0 - 1, 0))
        ELSE complex(0, 0)]

\* Amplitudes, polarizations and detunings of the fields: real as in the doctest
\* (polarization along z), or complex.  Amplitudes are even so that 0.5*Ep is
\* exact.
RealValues(nl) ==
    [Ep |-> [l1 \in 1..nl |-> complex(2 * l1, 0)],
     epsilonp |-> [l1 \in 1..nl |-> <<complex(0, 0), complex(0, 0), complex(1, 0)>>],
     detuning_knob |-> [l1 \in 1..nl |-> 4 * l1 - 5]]

ComplexValues(nl) ==
    [Ep |-> [l1 \in 1..nl |-> complex(2 * (l1 - 1), 6 - 4 * l1)],
     epsilonp |-> [l1 \in 1..nl |->
                      <<complex(1, 0), complex(0, 3 - 2 * l1), complex(l1, 0)>>],
     detuning_knob |-> [l1 \in 1..nl |-> 5 - 3 * l1]]

\* A theta written by hand: every excited level one photon above level 0, the
\* fields taken in turn.
OnePhotonTheta(nl, ne) ==
    [n \in 1..ne |->
        IF n = 1 THEN omega_term(nl, ne, 0, 0 - 1)
        ELSE expr_add(omega_term(nl, ne, 0, 0 - 1),
                      varpi_term(nl, ne, (n - 2) % nl, 0 - 1))]

HamInitWith(maxNe) ==
    /\ pc = "ham_start"
    /\ err = "none"
    /\ Ne \in 2..maxNe
    /\ Nl \in 1..MaxNl
    /\ omega_level \in HamEnergies(Ne)
    /\ \E coup \in SubsetsUpTo(Transitions(Nl, Ne), MaxCoup) :
          /\ \A l \in range(0, Nl) : \E t \in coup : t[1] = l
          /\ xi = xi_of(coup, Nl, Ne)
          /\ \/ rm = RealDipoles(xi, Nl, Ne) /\ values = RealValues(Nl)
             \/ rm = ComplexDipoles(xi, Nl, Ne) /\ values = ComplexValues(Nl)
    /\ symbolic \in [{"Ep", "epsilonp", "detuning_knob"} -> BOOLEAN]
    /\ theta = <<>> /\ hamiltonian = <<>> /\ H = EmptyDict /\ calls = <<>>
    /\ DetResultsEmpty
    /\ VecIdle
    /\ RwIdle

HamInit == HamInitWith(MaxNe)

\* The arguments of fast_hamiltonian: symbols where the caller kept the argument
\* symbolic, the numbers otherwise.
Ep_argument(vals, symb) ==
    [l1 \in 1..Len(vals.Ep) |-> IF symb["Ep"] THEN Symbol ELSE Number(vals.Ep[l1])]

epsilonp_argument(vals, symb) ==
    [l1 \in 1..Len(vals.epsilonp) |->
        [q \in 1..3 |-> IF symb["epsilonp"] THEN Symbol
                        ELSE Number(vals.epsilonp[l1][q])]]

detuning_knob_argument(vals, symb) ==
    [l1 \in 1..Len(vals.detuning_knob) |->
        IF symb["detuning_knob"] THEN Symbol ELSE Number(vals.detuning_knob[l1])]

\* The numbers the caller passes to the evaluator: those of the symbolic
\* arguments, in the order Ep, epsilonp, detuning_knob.
call_arguments(vals, symb) ==
    (IF symb["Ep"] THEN <<vals.Ep>> ELSE <<>>)
    \o (IF symb["epsilonp"] THEN <<vals.epsilonp>> ELSE <<>>)
    \o (IF symb["detuning_knob"] THEN <<vals.detuning_knob>> ELSE <<>>)

HamFrame == UNCHANGED <<vecVars, detVars, rm, values, symbolic, rwVars>>

\* theta = phase_transformation(Ne, Nl, rm, xi)
HamPhase ==
    /\ pc = "ham_start"
    /\ LET r == phase_transformation(Ne, Nl, rm, xi)
       IN  IF r.raised # "none"
           THEN /\ err' = r.raised
                /\ pc' = "ham_error"
                /\ theta' = theta
           ELSE /\ theta' = r.theta
                /\ pc' = "ham_theta"
                /\ err' = err
    /\ UNCHANGED <<hamiltonian, H, calls>>
    /\ HamFrame

\* The caller writes theta by hand.
HamTheta ==
    /\ pc = "ham_start"
    /\ theta' = OnePhotonTheta(Nl, Ne)
    /\ pc' = "ham_theta"
    /\ UNCHANGED <<err, hamiltonian, H, calls>>
    /\ HamFrame

\* hamiltonian = fast_hamiltonian(...), its "exec hamiltonian" included.
HamBuild ==
    /\ pc = "ham_theta"
    /\ LET r == fast_hamiltonian(Ep_argument(values, symbolic),
                                 epsilonp_argument(values, symbolic),
                                 detuning_knob_argument(values, symbolic),
                                 rm, omega_level, xi, theta, Ne)
           raised == IF r.raised # "none" THEN r.raised ELSE exec(r.code)
       IN  IF raised # "none"
           THEN /\ err' = raised
                /\ pc' = "ham_error"
                /\ hamiltonian' = hamiltonian
           ELSE /\ hamiltonian' = r.code
                /\ pc' = "ham_built"
                /\ err' = err
    /\ UNCHANGED <<theta, H, calls>>
    /\ HamFrame

\* H = hamiltonian(...)
HamCall ==
    /\ pc = "ham_built"
    /\ LET r == call_hamiltonian(hamiltonian, call_arguments(values, symbolic))
       IN  IF r.raised # "none"
           THEN /\ err' = r.raised
                /\ pc' = "ham_error"
                /\ UNCHANGED <<H, calls>>
           ELSE /\ H' = r.H
                /\ calls' = Append(calls, [args |-> call_arguments(values, symbolic),
                                           H |-> r.H])
                /\ pc' = "ham_called"
                /\ err' = err
    /\ UNCHANGED <<theta, hamiltonian>>
    /\ HamFrame

\* The caller writes into the matrix it was given.
HamChange ==
    /\ pc \in {"ham_called", "ham_recalled"}
    /\ Len(calls) < MaxCalls
    /\ H' = [H EXCEPT ![<<0, 0>>] = complex(7, 0)]
    /\ pc' = "ham_changed"
    /\ UNCHANGED <<err, theta, hamiltonian, calls>>
    /\ HamFrame

\* A later call, with the same or with other runtime arguments.
HamCallAgain ==
    /\ pc \in {"ham_called", "ham_changed", "ham_recalled"}
    /\ Len(calls) < MaxCalls
    /\ \E vals \in {RealValues(Nl), ComplexValues(Nl)} :
          LET r == call_hamiltonian(hamiltonian, call_arguments(vals, symbolic))
          IN  IF r.raised # "none"
              THEN /\ err' = r.raised
                   /\ pc' = "ham_error"
                   /\ UNCHANGED <<H, calls>>
              ELSE /\ H' = r.H
                   /\ calls' = Append(calls, [args |-> call_arguments(vals, symbolic),
                                              H |-> r.H])
                   /\ pc' = "ham_recalled"
                   /\ err' = err
    /\ UNCHANGED <<theta, hamiltonian>>
    /\ HamFrame

HamNext ==
    \/ HamPhase
    \/ HamTheta
    \/ HamBuild
    \/ HamCall

SpecHam == HamInit /\ [][HamNext]_vars

(***************************************************************************)
(* Claims about fast_hamiltonian and the evaluator it builds.              *)
(***************************************************************************)
Levels == range(0, Ne)

\* C2: the matrix the evaluator returns is Hermitian: H[i, j] is the conjugate of
\* H[j, i] for all i, j, so that the diagonal is real.
C2_Hermitian ==
    pc = "ham_called" =>
        \A a \in Levels, b \in Levels : H[<<a, b>>] = conjugate(H[<<b, a>>])

\* A returned matrix with an off-diagonal element of non-zero imaginary part and
\* a non-zero diagonal element.
C2_Witness ==
    /\ pc = "ham_called"
    /\ \E a \in Levels, b \in Levels : a # b /\ H[<<a, b>>].im # 0
    /\ \E a \in Levels : H[<<a, a>>] # complex(0, 0)

\* The evaluator of another choice of symbolic arguments, built for the same
\* model and called with the same numbers.
Variant(symb) ==
    LET r == fast_hamiltonian(Ep_argument(values, symb),
                              epsilonp_argument(values, symb),
                              detuning_knob_argument(values, symb),
                              rm, omega_level, xi, theta, Ne)
    IN  IF r.raised # "none" THEN [raised |-> r.raised, H |-> EmptyDict]
        ELSE IF exec(r.code) # "none" THEN [raised |-> exec(r.code), H |-> EmptyDict]
        ELSE call_hamiltonian(r.code, call_arguments(values, symb))

AllSymbolic == [name \in {"Ep", "epsilonp", "detuning_knob"} |-> TRUE]

\* C3: the eight evaluators, one per choice of which of Ep, epsilonp and
\* detuning_knob are fixed when building and which are passed when calling,
\* return the same matrix for the same numbers.  The runs range over the eight
\* choices: each returns the matrix of the evaluator of all three arguments,
\* and fails to build or to return only if that one does.
C3_EightConventions ==
    /\ pc = "ham_called" => Variant(AllSymbolic) = [raised |-> "none", H |-> H]
    /\ pc = "ham_error" /\ theta # <<>> => Variant(AllSymbolic).raised = err

\* A returned matrix of two fields of complex amplitudes, with non-zero
\* elements below the diagonal and on it.
C3_Witness ==
    /\ pc = "ham_called"
    /\ Nl = 2
    /\ values = ComplexValues(2)
    /\ \E a \in Levels, b \in Levels : a > b /\ H[<<a, b>>].im # 0
    /\ \E a \in Levels : H[<<a, a>>] # complex(0, 0)

\* The arguments that did not convert, in the order Ep, epsilonp, detuning_knob.
FreeArguments ==
    LET free(name) == symbolic[name]
    IN  SelectSeq(<<"Ep", "epsilonp", "detuning_knob">>, free)

\* C4: the parameters of the evaluator are exactly the arguments that did not
\* convert to numbers, in the order Ep, epsilonp, detuning_knob; called with
\* them it returns an Ne x Ne complex matrix.
C4_Parameters ==
    /\ pc \in {"ham_built", "ham_called"} => parameters(hamiltonian) = FreeArguments
    /\ pc = "ham_error" => err # "TypeError"
    /\ pc = "ham_called" =>
          /\ DOMAIN H = Levels \X Levels
          /\ \A t \in DOMAIN H : DOMAIN H[t] = {"re", "im"}

\* An evaluator of epsilonp and detuning_knob only, called.
C4_Witness ==
    /\ pc = "ham_called"
    /\ Ne = 3
    /\ parameters(hamiltonian) = <<"epsilonp", "detuning_knob">>
    /\ ~symbolic["Ep"]

\* The sum over the fields driving (a, b) of
\* 0.5*Ep[l]*(epsilonp[l] . rm[:, a, b])*e.
RECURSIVE DrivenSum(_, _, _)
DrivenSum(a, b, l) ==
    IF l \notin range(0, Nl) THEN complex(0, 0)
    ELSE cadd(IF xi[<<l, a, b>>] = 1
              THEN cmul(cmul(half(At(values.Ep, l)),
                             cartesian_dot_product(At(values.epsilonp, l),
                                                   rm_column(rm, a, b))),
                        complex(e_num, 0))
              ELSE complex(0, 0),
              DrivenSum(a, b, l + 1))

\* C5: every element below the diagonal is the sum of the contributions of all
\* the fields that drive its pair of levels.
C5_SumOverFields ==
    pc = "ham_called" =>
        \A a \in Levels, b \in Levels : a > b => H[<<a, b>>] = DrivenSum(a, b, 0)

(***************************************************************************)
(* detunings_rewrite on its own, as in its doctest: the model is prepared  *)
(* (define_simplification, find_omega_min, detunings_indices,              *)
(* detunings_combinations), then an expression is rewritten.               *)
(***************************************************************************)
\* The coefficients of the laser frequencies in the expressions tried.
Coefficients == {0 - 2, 0 - 1, 0, 1, 2}

\* a[0]*varpi_1 + ... + omega_(p+1) - omega_(q+1)
linear_expression(a, p, q, nl, ne) ==
    expr_add(expr_sum(zero_expr(nl, ne),
                      [l1 \in 1..nl |-> varpi_term(nl, ne, l1 - 1, a[l1])]),
             expr_sub(omega_term(nl, ne, p, 1), omega_term(nl, ne, q, 1)))

\* Two four-level systems in which each field drives two transitions: two
\* Lambda systems sharing their lower levels, and a diamond 0 -> {1, 2} -> 3.
FourLevelOmega == <<0, 1, 3, 7>>
FourLevelCoup ==
    {{<<0, 2, 1>>, <<0, 3, 1>>, <<1, 2, 0>>, <<1, 3, 0>>},
     {<<0, 1, 0>>, <<0, 2, 0>>, <<1, 3, 1>>, <<1, 3, 2>>}}

RwInit ==
    /\ pc = "rw_start"
    /\ err = "none"
    /\ \/ /\ Ne \in 2..MaxNe
          /\ Nl \in 1..MaxNl
          /\ omega_level \in HamEnergies(Ne)
          /\ \E coup \in SubsetsUpTo(Transitions(Nl, Ne), MaxCoup) :
                /\ \A l \in range(0, Nl) : \E t \in coup : t[1] = l
                /\ xi = xi_of(coup, Nl, Ne)
       \/ /\ Ne = 6
          /\ Nl = 2
          /\ omega_level = ExampleOmega
          /\ xi = xi_of(ExampleCoup, 2, 6)
       \/ /\ Ne = 4
          /\ Nl = 2
          /\ omega_level = FourLevelOmega
          /\ \E coup \in FourLevelCoup : xi = xi_of(coup, 2, 4)
    /\ DetResultsEmpty
    /\ VecIdle
    /\ HamIdle
    /\ RwIdle

RwFrame == UNCHANGED <<vecVars, Nl, omega_level, xi, hamVars>>

\* The preparation of the doctest.
RwPrepare ==
    /\ pc = "rw_start"
    /\ LET aux == define_simplification(omega_level, xi, Nl)
           r == find_omega_min(aux.omega_levelu, aux.Neu, Nl, aux.xiu)
           pairs_ == detunings_indices(aux.Neu, Nl, aux.xiu)
       IN  /\ simp' = aux
           /\ IF r.raised # "none"
              THEN /\ err' = r.raised
                   /\ pc' = "rw_error"
                   /\ UNCHANGED <<omega_min, iu0, ju0, pairs, combs>>
              ELSE /\ omega_min' = r.omega_min
                   /\ iu0' = r.iu0
                   /\ ju0' = r.ju0
                   /\ pairs' = pairs_
                   /\ combs' = detunings_combinations(pairs_)
                   /\ pc' = "rw_ready"
                   /\ err' = err
    /\ UNCHANGED <<code_det, rwVars>>
    /\ RwFrame

\* assign = detunings_rewrite(expr, combs, omega_laser, symb_omega_levelu,
\*                            omega_levelu, iu0, ju0)
RwRewrite ==
    /\ pc = "rw_ready"
    /\ \E a \in [1..Nl -> Coefficients], p \in range(0, simp.Neu),
          q \in range(0, simp.Neu) :
          /\ expression' = linear_expression(a, p, q, Nl, simp.Neu)
          /\ expression_code' =
                 detunings_rewrite(expression', combs, Nl, simp.Neu)
    /\ pc' = "rw_done"
    /\ UNCHANGED <<err, simp, omega_min, iu0, ju0, pairs, code_det, combs>>
    /\ RwFrame

RwNext ==
    \/ RwPrepare
    \/ RwRewrite

SpecRewrite == RwInit /\ [][RwNext]_vars

\* The laser coefficients of the expression rewritten.
LaserCoefficients == [l1 \in 1..Nl |-> diff_varpi(expression, l1 - 1)]

\* The fallback branch was taken.
FallbackTaken ==
    /\ pc = "rw_done"
    /\ ~rewrite_success(expression, combs, Nl, simp.Neu)

\* The terms of a signed sum as <<sign, operand>>, a leading operand without a
\* sign counting as positive.
RECURSIVE SignedTerms(_)
SignedTerms(t) ==
    IF t = <<>> THEN <<>>
    ELSE LET first == IF IsSign(t[1]) THEN 2 ELSE 1
             stop == next_sign(t, first)
         IN  <<<<IF t[1] = "-" THEN 0 - 1 ELSE 1, SubSeq(t, first, stop - 1)>>>>
             \o SignedTerms(SubSeq(t, stop, Len(t)))

\* The knob of every field with a non-zero coefficient, with the sign of the
\* coefficient, from field l on.
RECURSIVE ExpectedKnobTerms(_, _)
ExpectedKnobTerms(a, l) ==
    IF l \notin range(0, Len(a)) THEN <<>>
    ELSE (IF a[l + 1] = 0 THEN <<>>
          ELSE <<<<IF a[l + 1] < 0 THEN 0 - 1 ELSE 1,
                   <<"detuning_knob[">> \o str_int(l) \o <<"]">>>>>>)
         \o ExpectedKnobTerms(a, l + 1)

\* C11: detunings_rewrite always returns a text, and when no combination
\* matches the text is a signed sum of detuning_knob[l] terms over exactly the
\* fields whose laser coefficient is non-zero, each with the sign of its
\* coefficient.
C11_FallbackSignedSum ==
    FallbackTaken =>
        /\ is_expression(expression_code)
        /\ SignedTerms(expression_code) = ExpectedKnobTerms(LaserCoefficients, 0)

\* The part of C11 that the code keeps: the fallback names exactly the fields
\* with a non-zero coefficient, in order, and signs those of coefficient +-1.
C11_UnitCoefficients ==
    FallbackTaken /\ (\A l1 \in 1..Nl : LaserCoefficients[l1] \in {0 - 1, 0, 1}) =>
        /\ is_expression(expression_code)
        /\ SignedTerms(expression_code) = ExpectedKnobTerms(LaserCoefficients, 0)

\* The knob values a rewritten text is evaluated at.
KnobValues == {0 - 1, 0, 2}

\* The value of the expression under
\* laser_l = detuning_knob[l] + (omega_levelu[iu0[l]] - omega_levelu[ju0[l]])
\* and the numeric level energies.
ExpressionValue(knob) ==
    LET RECURSIVE total(_, _)
        total(f, n) == IF n = 0 THEN 0 ELSE f[n] + total(f, n - 1)
    IN  total([l1 \in 1..Nl |->
                  expression.varpi[l1]
                  * (knob[l1] + At(simp.omega_levelu, At(iu0, l1 - 1))
                              - At(simp.omega_levelu, At(ju0, l1 - 1)))], Nl)
        + total([n \in 1..simp.Neu |->
                    expression.omega[n] * simp.omega_levelu[n]], simp.Neu)

\* C12: on the fallback path the emitted formula has the value of the
\* original expression under laser_l = detuning_knob[l] + reference transition
\* of field l, at every knob setting; a non-zero remainder is not dropped.
\* (Stated for coefficients in {-1, 0, 1}, whose knob terms the text signs.)
C12_RemainderKept ==
    FallbackTaken /\ (\A l1 \in 1..Nl : LaserCoefficients[l1] \in {0 - 1, 0, 1}) =>
        \A knob \in [1..Nl -> KnobValues] :
            eval_sum(expression_code, EmptyDict, knob).value = ExpressionValue(knob)

\* On the fallback path the text and the expression differ by the remainder
\* that the branch computed.
C12_DroppedRemainder ==
    FallbackTaken /\ (\A l1 \in 1..Nl : LaserCoefficients[l1] \in {0 - 1, 0, 1}) =>
        \A knob \in [1..Nl -> KnobValues] :
            ExpressionValue(knob)
                = eval_sum(expression_code, EmptyDict, knob).value
                  + rewrite_remainder(expression, Nl, simp.Neu,
                                      simp.omega_levelu, iu0, ju0)

(***************************************************************************)
(* phase_transformation on its own.                                        *)
(***************************************************************************)
MaxCoupPhase == 3

\* Dipole elements of a system in which the transition 1 -> 0 is forbidden.
DarkDipoles(x, nl, ne) ==
    [t \in range(0, 3) \X range(0, ne) \X range(0, ne) |->
        IF t[2] = 1 /\ t[3] = 0 THEN complex(0, 0) ELSE RealDipoles(x, nl, ne)[t]]

PhaseInit ==
    /\ pc = "phase_start"
    /\ err = "none"
    /\ Ne \in 1..MaxNe
    /\ Nl \in 1..MaxNl
    /\ omega_level \in {[n \in 1..Ne |-> n - 1]}
    /\ \E coup \in SubsetsUpTo(Transitions(Nl, Ne), MaxCoupPhase) :
          /\ xi = xi_of(coup, Nl, Ne)
          /\ rm \in {RealDipoles(xi, Nl, Ne), ComplexDipoles(xi, Nl, Ne),
                     DarkDipoles(xi, Nl, Ne)}
    /\ values = EmptyDict /\ symbolic = EmptyDict
    /\ theta = <<>> /\ hamiltonian = <<>> /\ H = EmptyDict /\ calls = <<>>
    /\ DetResultsEmpty
    /\ VecIdle
    /\ RwIdle

\* theta = phase_transformation(Ne, Nl, rm, xi)
PhaseRun ==
    /\ pc = "phase_start"
    /\ LET r == phase_transformation(Ne, Nl, rm, xi)
       IN  IF r.raised # "none"
           THEN /\ err' = r.raised
                /\ pc' = "phase_error"
                /\ theta' = theta
           ELSE /\ theta' = r.theta
                /\ pc' = "phase_done"
                /\ err' = err
    /\ UNCHANGED <<hamiltonian, H, calls>>
    /\ HamFrame

SpecPhase == PhaseInit /\ [][PhaseRun]_vars

\* The equations of the system at hand.
Equations == phase_equations(Ne, Nl, rm, xi)

\* C13: whenever phase_transformation returns, result[0] + omega_level[0] = 0.
C13_GroundPhase ==
    pc = "phase_done" =>
        expr_is_zero(expr_add(At(theta, 0), omega_term(Nl, Ne, 0, 1)))

C13_Witness ==
    /\ pc = "phase_done"
    /\ Len(Equations) >= 2
    /\ \E n \in 2..Ne : ~expr_is_zero(At(theta, n - 1))

\* C14: whenever phase_transformation returns, the returned phases satisfy
\* every equation built: -omega_laser[l] + theta[j] - theta[i] = 0 for every
\* equation of a pair (i, j) and a field l.
C14_EquationsHold ==
    pc = "phase_done" =>
        \A n \in 1..Len(Equations) :
            LET e == Equations[n]
            IN  expr_is_zero(
                    expr_add(varpi_term(Nl, Ne, e[3], 0 - 1),
                             expr_sub(At(theta, e[2]), At(theta, e[1]))))

C14_Witness ==
    /\ pc = "phase_done"
    /\ Nl = 2
    /\ \E n, m \in 1..Len(Equations) : Equations[n][3] # Equations[m][3]

\* The pattern is consistent: the equations have a solution.
Consistent == equations_consistent(Equations, Nl, Ne)

\* C15: for every consistent coupling pattern, isolated levels and groups not
\* linked to level 0 included, phase_transformation completes without error and
\* returns exactly Ne phases.  (Stated for patterns with at least one equation.)
C15_UnderDetermined ==
    pc # "phase_start" /\ Equations # <<>> /\ Consistent =>
        pc = "phase_done" /\ Len(theta) = Ne

\* One pair driven by two different fields.
TwoFieldsOnePair ==
    \E n, m \in 1..Len(Equations) :
        /\ Equations[n][1] = Equations[m][1]
        /\ Equations[n][2] = Equations[m][2]
        /\ Equations[n][3] # Equations[m][3]

\* A cycle of three couplings (of whatever fields: no signed sum of one or two
\* laser frequencies around it vanishes unless a pair is driven twice).
ThreeCycle ==
    \E n, m, o \in 1..Len(Equations) :
        /\ Equations[n][2] = Equations[m][2] /\ Equations[n][1] # Equations[m][1]
        /\ Equations[o][1] = Equations[n][1] /\ Equations[o][2] = Equations[m][1]

\* C16: if the equations are inconsistent, phase_transformation ends in an
\* error and no phase list is returned, truncated or otherwise.
C16_InconsistentRaises ==
    pc # "phase_start" /\ (~Consistent \/ TwoFieldsOnePair \/ ThreeCycle) =>
        pc = "phase_error" /\ err = "IndexError" /\ theta = <<>>

C16_Witness ==
    /\ pc = "phase_error"
    /\ TwoFieldsOnePair
    /\ theta = <<>>

(***************************************************************************)
(* fast_hamiltonian called with argument lists of any length.              *)
(***************************************************************************)
DimInit ==
    /\ pc = "dim_start"
    /\ err = "none"
    /\ Ne \in 2..MaxNe
    /\ Nl \in 1..MaxNl
    /\ omega_level \in DistinctEnergies(Ne)
    /\ \E coup \in SubsetsUpTo(Transitions(Nl, Ne), MaxCoup) :
          /\ \A l \in range(0, Nl) : \E t \in coup : t[1] = l
          /\ xi = xi_of(coup, Nl, Ne)
    /\ rm = RealDipoles(xi, Nl, Ne)
    /\ \E nEp \in 1..MaxNl, nepsilonp \in 1..MaxNl, nknob \in 1..MaxNl :
          values = [Ep |-> RealValues(nEp).Ep,
                    epsilonp |-> RealValues(nepsilonp).epsilonp,
                    detuning_knob |-> RealValues(nknob).detuning_knob]
    /\ symbolic \in [{"Ep", "epsilonp", "detuning_knob"} -> BOOLEAN]
    /\ theta = <<>> /\ hamiltonian = <<>> /\ H = EmptyDict /\ calls = <<>>
    /\ DetResultsEmpty
    /\ VecIdle
    /\ RwIdle

\* The caller writes theta for the fields of Ep.
DimTheta ==
    /\ pc = "dim_start"
    /\ theta' = OnePhotonTheta(Len(values.Ep), Ne)
    /\ pc' = "ham_theta"
    /\ UNCHANGED <<err, hamiltonian, H, calls>>
    /\ HamFrame

DimNext ==
    \/ DimTheta
    \/ HamBuild

SpecDim == DimInit /\ [][DimNext]_vars

\* The lengths of the arguments disagree with the fields of xi.
DimensionMismatch ==
    \/ Len(values.Ep) # Nl
    \/ Len(values.epsilonp) # Nl
    \/ Len(values.detuning_knob) # Nl

\* A name is a parameter of the evaluator built.
IsParameter(name) ==
    \E n \in 1..Len(parameters(hamiltonian)) : parameters(hamiltonian)[n] = name

\* C17: fast_hamiltonian fails, and returns no evaluator, whenever len(Ep)
\* differs from the number of fields of xi (or another dimension disagrees);
\* a wrong-length epsilonp or detuning_knob given as numbers is not turned
\* into a parameter of the evaluator.
C17_DimensionMismatch ==
    /\ pc \in {"ham_built", "ham_error"} /\ DimensionMismatch =>
          pc = "ham_error" /\ hamiltonian = <<>>
    /\ pc = "ham_built" /\ ~symbolic["epsilonp"] => ~IsParameter("epsilonp")
    /\ pc = "ham_built" /\ ~symbolic["detuning_knob"] =>
          ~IsParameter("detuning_knob")

\* The half of C17 that the code keeps: more amplitudes than xi has fields end
\* in an error.
C17_TooManyAmplitudes ==
    pc \in {"ham_built", "ham_error"} /\ Len(values.Ep) > Nl =>
        pc = "ham_error" /\ err = "IndexError" /\ hamiltonian = <<>>

(***************************************************************************)
(* Further claims about vectorization.                                     *)
(***************************************************************************)
\* C18: a call of Mu with a coordinate outside the configured domain (the
\* population (0,0) when normalized, a pair with i < j when lower_triangular,
\* an index or group out of range) fails with a lookup error and returns no
\* index, a call inside it returns the index, and after any call Mu and IJ are
\* the maps that vectorization built.
C18_LookupError ==
    pc = "vec_called" =>
        /\ lookup.x \notin Coordinates =>
              lookup.raised = "KeyError" /\ lookup.mu \notin DOMAIN IJ
        /\ lookup.x \in Coordinates =>
              lookup.raised = "none" /\ IJ[lookup.mu] = lookup.x
        /\ Mu = (IF real THEN real_map ELSE comp_map)
        /\ IJ = (IF real THEN real_map_inv ELSE comp_map_inv)
        /\ DOMAIN Mu = Coordinates

C18_Witness ==
    /\ pc = "vec_called"
    /\ normalized /\ lower_triangular /\ ~real
    /\ lookup.x = <<0, 0, 0>>
    /\ lookup.raised = "KeyError"

\* The coordinates of group g in the order of assignment: the populations
\* for increasing i, then for j ascending and i ascending with i > j the
\* coherence (i, j), followed by (j, i) unless lower_triangular; in the real
\* encoding a population is one entry of sign +1 and a coherence two entries,
\* sign +1 then sign -1.
GroupOrder(g) ==
    LET tag(c) == IF ~real THEN <<c>>
                  ELSE IF c[1] = c[2] THEN <<<<1>> \o c>>
                  ELSE <<<<1>> \o c, <<0 - 1>> \o c>>
        start == IF normalized THEN 1 ELSE 0
        pops == [n \in 1..(Ne - start) |-> tag(<<start + n - 1, start + n - 1, g>>)]
        coh(jj, ii) == IF ii <= jj THEN <<>>
                       ELSE tag(<<ii, jj, g>>)
                            \o (IF lower_triangular THEN <<>> ELSE tag(<<jj, ii, g>>))
        cohs == [n \in 1..(Ne * Ne) |-> coh((n - 1) \div Ne, (n - 1) % Ne)]
    IN  concat(pops) \o concat(cohs)

\* C19: within each group the indices follow the order of GroupOrder, each one
\* more than the one before; for Ne = 2, Nv = 1, complex, lower-triangular,
\* unnormalized: (0,0) -> 0, (1,1) -> 1, (1,0) -> 2.
C19_AssignmentOrder ==
    pc = "vec_done" =>
        /\ \A g \in range(0, Nv) : \A n \in 2..Len(GroupOrder(g)) :
              Mu[GroupOrder(g)[n]] = Mu[GroupOrder(g)[n - 1]] + 1
        /\ Ne = 2 /\ Nv = 1 /\ ~real /\ lower_triangular /\ ~normalized =>
              Mu = (<<0, 0, 0>> :> 0 @@ <<1, 1, 0>> :> 1 @@ <<1, 0, 0>> :> 2)

C19_Witness ==
    /\ pc = "vec_done"
    /\ Ne = 3 /\ real /\ ~lower_triangular /\ normalized
    /\ Mu[<<1, 1, 0, 0>>] + 1 = Mu[<<0 - 1, 1, 0, 0>>]
    /\ Mu[<<0 - 1, 1, 0, 0>>] + 1 = Mu[<<1, 0, 1, 0>>]

\* B = (Ne - (1 if normalized else 0))
\*     + (Ne*(Ne-1)/2) * (1 if lower_triangular else 2) * (2 if real else 1)
BlockSize ==
    (Ne - (IF normalized THEN 1 ELSE 0))
    + ((Ne * (Ne - 1)) \div 2) * (IF lower_triangular THEN 1 ELSE 2)
                               * (IF real THEN 2 ELSE 1)

\* The coordinate x moved to group 0.
InGroupZero(x) == [x EXCEPT ![Len(x)] = 0]

\* C20: the index of a coordinate in group k is its index in group 0 plus
\* k*B, and the assigned indices are exactly 0 .. Nv*B - 1, none twice.
C20_Blocks ==
    pc = "vec_done" =>
        /\ \A x \in DOMAIN Mu : Mu[x] = Mu[InGroupZero(x)] + x[Len(x)] * BlockSize
        /\ DOMAIN IJ = range(0, Nv * BlockSize)
        /\ {Mu[x] : x \in DOMAIN Mu} = range(0, Nv * BlockSize)
        /\ \A x, y \in DOMAIN Mu : Mu[x] = Mu[y] => x = y

C20_Witness ==
    /\ pc = "vec_done"
    /\ Nv >= 2 /\ Ne >= 2
    /\ BlockSize >= 3
    /\ \E x \in DOMAIN Mu : x[Len(x)] = 1 /\ Mu[x] = Mu[InGroupZero(x)] + BlockSize

(***************************************************************************)
(* Further claims about the detuning routines.                             *)
(***************************************************************************)
\* The pairs of simplified levels that field l drives, iu > ju.
DrivenPairs(l) ==
    {p \in range(0, simp.Neu) \X range(0, simp.Neu) :
        p[1] > p[2] /\ simp.xiu[<<l, p[1], p[2]>>] = 1}

\* The transition energy of a pair of simplified levels.
TransitionEnergy(p) == At(simp.omega_levelu, p[1]) - At(simp.omega_levelu, p[2])

\* C21: for every field, find_omega_min returns a pair (iu0, ju0) with
\* iu0 > ju0 and xiu[l, iu0, ju0] = 1 whose transition energy is minimal among
\* the pairs of the field, the lexicographically smallest (iu, ju) among pairs
\* of equal energy; omega_min[l] is that energy.
C21_MinimalPair ==
    pc = "det_min" =>
        \A l \in range(0, Nl) :
            LET p0 == <<At(iu0, l), At(ju0, l)>>
            IN  /\ p0 \in DrivenPairs(l)
                /\ At(omega_min, l) = TransitionEnergy(p0)
                /\ \A p \in DrivenPairs(l) :
                      \/ TransitionEnergy(p) > TransitionEnergy(p0)
                      \/ /\ TransitionEnergy(p) = TransitionEnergy(p0)
                         /\ \/ p[1] > p0[1]
                            \/ p[1] = p0[1] /\ p[2] >= p0[2]

C21_Witness ==
    /\ pc = "det_min"
    /\ \E l \in range(0, Nl) : \E p, q \in DrivenPairs(l) :
          /\ p # q
          /\ TransitionEnergy(p) = TransitionEnergy(q)
          /\ p = <<At(iu0, l), At(ju0, l)>>

(***************************************************************************)
(* The detuning routines on energy lists in any order.                     *)
(***************************************************************************)
AnyEnergies(ne) == [1..ne -> 0..MaxOmega]

UnsortedInit == DetInitWith(MaxNe, MaxNl, MaxCoup, AnyEnergies)

SpecUnsorted == UnsortedInit /\ [][DetNext]_vars

\* Two levels of equal energy with a level of another energy between them.
SeparatedTwins(a, b) ==
    /\ a < b
    /\ At(omega_level, a) = At(omega_level, b)
    /\ \E m \in range(a + 1, b) : At(omega_level, m) # At(omega_level, a)

\* C22: define_simplification raises nothing on an energy list in any order, and
\* two levels of equal energy separated by a level of another energy get
\* different classes, so that Neu exceeds the number of distinct energies.
C22_UnsortedClasses ==
    pc = "det_simplified" =>
        /\ DOMAIN simp.u = range(0, Ne)
        /\ \A a, b \in range(0, Ne) :
              SeparatedTwins(a, b) =>
                  /\ simp.u[a] # simp.u[b]
                  /\ simp.Neu > Cardinality({At(omega_level, n) : n \in range(0, Ne)})

C22_Witness ==
    /\ pc = "det_simplified"
    /\ omega_level = <<1, 0, 1>>
    /\ simp.Neu = 3

(***************************************************************************)
(* The evaluator called several times.                                     *)
(***************************************************************************)
CallsInit == HamInitWith(MaxNeCalls)

CallsNext ==
    \/ HamNext
    \/ HamChange
    \/ HamCallAgain

SpecCalls == CallsInit /\ [][CallsNext]_vars

Matches(n) ==
    expr_is_zero(expr_sub(expression,
                          expr_try(LaserCoefficients, combs[n], Nl, simp.Neu)))

\* The delta symbols of a combination, signed as the coefficients.
RECURSIVE DeltaText(_, _)
DeltaText(comb, l) ==
    IF l \notin range(0, Nl) THEN <<>>
    ELSE (IF LaserCoefficients[l + 1] = 0 THEN <<>>
          ELSE sign_text(LaserCoefficients[l + 1])
               \o delta_name(l, At(comb, l)[1], At(comb, l)[2]))
         \o DeltaText(comb, l + 1)

\* C24: when several combinations match, the text holds the delta symbols of
\* the first matching combination in the order of detunings_combinations (for
\* two fields: the pair of field 0 slowest, the pair of field 1 fastest).
C24_FirstMatch ==
    pc = "rw_done" =>
        /\ \A n \in 1..Len(combs) :
              Matches(n) /\ (\A m \in 1..(n - 1) : ~Matches(m)) =>
                  expression_code = DeltaText(combs[n], 0)
        /\ Nl = 2 =>
              \A c \in 1..Len(At(pairs, 0)), d \in 1..Len(At(pairs, 1)) :
                  combs[(c - 1) * Len(At(pairs, 1)) + d]
                      = <<At(pairs, 0)[c], At(pairs, 1)[d]>>

C24_Witness ==
    /\ pc = "rw_done"
    /\ \E m, n \in 1..Len(combs) :
          /\ m < n
          /\ Matches(m) /\ Matches(n)
          /\ DeltaText(combs[m], 0) # DeltaText(combs[n], 0)
          /\ expression_code = DeltaText(combs[m], 0)

\* The values detunings_code assigns to the delta symbols at the knobs knob.
DeltaValues(knob) ==
    exec_detunings(detunings_code(simp.Neu, Nl, pairs, simp.omega_levelu, iu0, ju0),
                   knob)

\* C25: the formulas of two combinations that both match the expression have
\* the same value, the delta symbols taking the values detunings_code assigns
\* to them, at every setting of the knobs.
C25_SameValue ==
    pc = "rw_done" =>
        \A m, n \in 1..Len(combs) :
            Matches(m) /\ Matches(n)
            /\ is_expression(DeltaText(combs[m], 0))
            /\ is_expression(DeltaText(combs[n], 0)) =>
                \A knob \in [1..Nl -> KnobValues] :
                    eval_sum(DeltaText(combs[m], 0), DeltaValues(knob), knob).value
                    = eval_sum(DeltaText(combs[n], 0), DeltaValues(knob), knob).value

(***************************************************************************)
(* Further claims about phase_transformation.                              *)
(***************************************************************************)
\* The pairs (field, higher level, lower level) for which an equation is
\* imposed: driven by the field, with a non-vanishing dipole element.
ImposedPairs ==
    {t \in range(0, Nl) \X range(0, Ne) \X range(0, Ne) :
        /\ t[2] > t[3]
        /\ xi[t] = 1
        /\ \E q \in range(0, 3) : rm[<<q, t[2], t[3]>>] # complex(0, 0)}

\* C26 as stated: for each coupled pair the phase of the higher-index level
\* minus the phase of the lower-index level equals the laser frequency of the
\* field.
C26_Original ==
    pc = "phase_done" =>
        \A t \in ImposedPairs :
            expr_sub(At(theta, t[2]), At(theta, t[3])) = varpi_term(Nl, Ne, t[1], 1)

\* C26, amended: for each coupled pair the phase of the lower-index level minus
\* the phase of the higher-index level equals the laser frequency of the
\* field: -laser_l + theta[j] - theta[i] = 0 with j < i.
C26_Amended ==
    pc = "phase_done" =>
        \A t \in ImposedPairs :
            expr_sub(At(theta, t[3]), At(theta, t[2])) = varpi_term(Nl, Ne, t[1], 1)

\* The doctest: phase_transformation(2, 1, rm, xi) = [-omega_1, -omega_1 - varpi_1].
C26_Witness ==
    /\ pc = "phase_done"
    /\ Ne = 2 /\ Nl = 1
    /\ ImposedPairs = {<<0, 1, 0>>}
    /\ theta = <<omega_term(1, 2, 0, 0 - 1),
                 expr_sub(omega_term(1, 2, 0, 0 - 1), varpi_term(1, 2, 0, 1))>>

(***************************************************************************)
(* The signs of the terms of detunings_rewrite.                            *)
(***************************************************************************)
\* The operands of the text, each with the sign characters in front of it.
RECURSIVE SignRuns(_, _)
SignRuns(t, run) ==
    IF t = <<>> THEN <<>>
    ELSE IF IsSign(t[1]) THEN SignRuns(Tail(t), Append(run, t[1]))
    ELSE IF t[1] \in {"delta", "detuning_knob["}
    THEN <<run>> \o SignRuns(Tail(t), <<>>)
    ELSE SignRuns(Tail(t), run)

\* The sign characters due to a coefficient: |c| times '+' or '-'.
SignCharacters(c) ==
    [n \in 1..(IF c < 0 THEN 0 - c ELSE c) |-> IF c < 0 THEN "-" ELSE "+"]

\* The non-zero laser coefficients, in the order of the fields.
NonZeroCoefficients ==
    LET nz(c) == c # 0
    IN  SelectSeq(LaserCoefficients, nz)

\* C27: in the text of detunings_rewrite every term of a non-zero coefficient
\* a_l is preceded by |a_l| sign characters, '+' for positive and '-' for
\* negative; no term comes without a sign.
C27_SignCharacters ==
    pc = "rw_done" =>
        SignRuns(expression_code, <<>>)
            = [n \in 1..Len(NonZeroCoefficients) |->
                  SignCharacters(NonZeroCoefficients[n])]

\* The part of C27 that the code keeps: a term of coefficient +1 or -1 is
\* preceded by exactly one '+' or '-', and there is one term per non-zero
\* coefficient.
C27_UnitSigns ==
    pc = "rw_done" =>
        /\ Len(SignRuns(expression_code, <<>>)) = Len(NonZeroCoefficients)
        /\ \A n \in 1..Len(NonZeroCoefficients) :
              NonZeroCoefficients[n] \in {0 - 1, 1} =>
                  SignRuns(expression_code, <<>>)[n]
                      = SignCharacters(NonZeroCoefficients[n])

(***************************************************************************)
(* Driven transitions and the simplification.                              *)
(***************************************************************************)
\* The transitions (l, i, j) that field l drives between levels of different
\* energy, i the higher one.
DrivenTransitions ==
    {t \in range(0, Nl) \X range(0, Ne) \X range(0, Ne) :
        At(omega_level, t[2]) > At(omega_level, t[3]) /\ xi[t] = 1}

\* The transition is kept: by xiu and by the list of detunings_indices.
Kept(t) ==
    /\ simp.xiu[<<t[1], simp.u[t[2]], simp.u[t[3]]>>] = 1
    /\ \E n \in 1..Len(At(pairs, t[1])) :
          At(pairs, t[1])[n] = <<simp.u[t[2]], simp.u[t[3]]>>

\* C28: for sorted input no driven transition is lost, also when one of its
\* levels is not the first of its degenerate class: xiu[l, u(i), u(j)] = 1
\* and (u(i), u(j)) is in detunings_indices(Neu, Nl, xiu)[l].
C28_NoTransitionLost ==
    pc \in {"det_pairs", "det_pairs_only"} =>
        \A t \in DrivenTransitions : Kept(t)

\* The part of C28 that the code keeps: transitions between the first levels
\* of their classes.
C28_FirstLevels ==
    pc \in {"det_pairs", "det_pairs_only"} =>
        \A t \in DrivenTransitions :
            simp.invu[simp.u[t[2]]] = t[2] /\ simp.invu[simp.u[t[3]]] = t[3] =>
                Kept(t)

(***************************************************************************)
(* Fields that drive nothing.                                              *)
(***************************************************************************)
\* Some field has an empty list in detunings_indices.
EmptyField ==
    LET aux == define_simplification(omega_level, xi, Nl)
    IN  \E l \in range(0, Nl) : At(detunings_indices(aux.Neu, Nl, aux.xiu), l) = <<>>

\* What find_omega_min makes of the system at hand.
ReferencePairs ==
    LET aux == define_simplification(omega_level, xi, Nl)
    IN  find_omega_min(aux.omega_levelu, aux.Neu, Nl, aux.xiu)

\* C29: if some field drives no pair of distinct simplified classes,
\* find_omega_min ends in an error without reference pairs, and so does
\* fast_hamiltonian, without an evaluator.
C29_EmptyFieldRaises ==
    EmptyField =>
        /\ ReferencePairs.raised = "IndexError"
        /\ Len(ReferencePairs.iu0) < Nl /\ Len(ReferencePairs.ju0) < Nl
        /\ pc \notin {"ham_built", "ham_called"}
        /\ hamiltonian = <<>>
        /\ theta # <<>> /\ pc # "ham_theta" => pc = "ham_error" /\ err = "IndexError"

C29_Witness ==
    /\ EmptyField
    /\ pc = "ham_error"
    /\ theta # <<>>
    /\ err = "IndexError"

(***************************************************************************)
(* The diagonal entry of level 0.                                          *)
(***************************************************************************)
\* theta[0] + omega_levelu[u(0)]
GroundExpression ==
    expr_add(At(theta, 0),
             omega_term(Nl, Ne, define_simplification(omega_level, xi, Nl).u[0], 1))

\* The combinations fast_hamiltonian hands to detunings_rewrite.
BuildCombinations ==
    LET aux == define_simplification(omega_level, xi, Nl)
    IN  detunings_combinations(detunings_indices(aux.Neu, Nl, aux.xiu))

\* The text assigns H[0, 0].
AssignsGround ==
    \E n \in 1..Len(splitlines(hamiltonian)) :
        LET line == splitlines(hamiltonian)[n]
        IN  Len(line) >= 5 /\ SubSeq(line, 1, 5) = <<"    H[", "0", ", ", "0", "] = ">>

\* C30: when the phases come from phase_transformation and an evaluator is
\* returned, theta[0] + omega_levelu[u(0)] is identically zero, detunings_rewrite
\* returns the empty text for it, the evaluator has no assignment of H[0, 0]
\* and returns H[0, 0] = 0.
C30_GroundDiagonal ==
    /\ pc \in {"ham_built", "ham_called"}
    /\ theta = phase_transformation(Ne, Nl, rm, xi).theta
    => /\ expr_is_zero(GroundExpression)
       /\ detunings_rewrite(GroundExpression, BuildCombinations, Nl, Ne) = <<>>
       /\ ~AssignsGround
       /\ pc = "ham_called" => H[<<0, 0>>] = complex(0, 0)

C30_Witness ==
    /\ pc = "ham_called"
    /\ theta = phase_transformation(Ne, Nl, rm, xi).theta
    /\ symbolic = [a \in {"Ep", "epsilonp", "detuning_knob"} |-> TRUE]
    /\ H[<<0, 0>>] = complex(0, 0)
    /\ H[<<1, 1>>] # complex(0, 0)

====
